---- MODULE Spec2Model ----
(***************************************************************************)
(* Enrichment pipeline of python_backend_services/data_ingestion:          *)
(* the SQLite table enriched_documents, the catalog upsert                 *)
(* (_insert_initial_documents_from_parser), the enrichment loop            *)
(* (run_enrichment_pipeline / enrich_batch) and the projection of the      *)
(* enriched rows into the search index.  One driver, one process.          *)
(***************************************************************************)
EXTENDS Integers, Sequences, FiniteSets, TLC

\* ---------------------------------------------------------------- bounds
MaxRows == 2        \* rows in one catalog read
MaxRuns == 2        \* driver runs (also the clock behind CURRENT_TIMESTAMP)
MaxProjRuns == 2    \* runs of main_sqlite_to_es

DocIds == {"D1", "D2"}
Titles == {"titulo"}                   \* the original fields of a catalog row
                                       \* (the content carries the variation)
BatchSizes == {1, 2}                   \* settings.BATCH_SIZE_LLM_ENRICHMENT
Limits == {0, 1}                       \* num_docs_to_process; 0 stands for None

\* ---------------------------------------------------------------- values
Null == "<NULL>"                       \* Python None / SQL NULL
\* what parse_documents hands over as full_text_content: None for a file it
\* cannot read, else the text of the file (here blank or with a glossary
\* term); an empty file gives "", which every test of the pipeline
\* (`not x`) takes as it takes None
Contents == {Null, " ", "dano moral"}
GenTexts == {"resumo"}                 \* response_data["response"].strip()
GlossaryKinds == {"tsv", "gs"}         \* GlossaryService / GlossaryServiceGS

pending == "pending"
processing_llm == "processing_llm"
enriched == "enriched"
error_enrichment == "error_enrichment"

\* the target index of the search service
Absent == "<absent>"                   \* indices.exists(...) is false
EmbeddingDims == {"4096", "768"}       \* settings.EMBEDDING_DIMENSIONS, the
                                       \* part of the mapping a setting decides
BatchSizesEs == {-1, 0, 1, 2}          \* --batch-size of main_sqlite_to_es
EsOutcomes == {"ok", "fails", "unreachable"}

MissingMsg == "Conteudo nao encontrado no DB para enrich_batch"
LlmErrMsg == "Erro LLM: exc"

VARIABLES
    store,          \* committed rows of enriched_documents, in rowid order
    pc,             \* position of the driver
    runs,           \* runs started so far; the value CURRENT_TIMESTAMP yields
    glossary,       \* which glossary service instance was injected
    parsed_docs,    \* rows returned by parse_documents in this run
    cfg,            \* arguments and settings of this run
    sel,            \* docs_to_enrich_ids_final_list
    pos,            \* 1-based position in sel of the record being enriched
    loc,            \* locals of enrich_batch for that record
    calls,          \* generate_text calls issued per document in this run
    attempts,       \* loop iterations of enrich_batch per document in this run
    flags,          \* what went wrong in this run (NameError, batch abort)
    es_index,       \* documents held by the target index of the search service
    es_meta,        \* the target index itself: absent, or the schema it was made with
    proj,           \* locals and counters of the current run of main_sqlite_to_es
    gsheet_data,    \* the metadata sheet as a run finds it, with the raw files
    other,          \* a second driver process on the same store: its position
                    \* and locals while the first one has the processor
    batches,        \* the batch_ids lists handed to enrich_batch, in order
    active_conversations,  \* conversation key -> its AdvogadaParceiraAgent
    webhook         \* what the last call of handle_whatsapp_message did

vars == <<store, pc, runs, glossary, parsed_docs, cfg, sel, pos, loc, calls,
          attempts, flags, es_index, es_meta, proj, gsheet_data, other,
          batches, active_conversations, webhook>>

\* ------------------------------------------------------------ SQL helpers
IdxOf(tbl, d) == {i \in DOMAIN tbl : tbl[i].document_id = d}

HasRow(tbl, d) == IdxOf(tbl, d) # {}

\* cursor.fetchone() of SELECT ... WHERE document_id = ?
FetchOne(tbl, d) == tbl[CHOOSE i \in IdxOf(tbl, d) : TRUE]

\* UPDATE enriched_documents SET <fields>, updated_at = CURRENT_TIMESTAMP
\* WHERE document_id = d
SqlUpdate(tbl, d, fields, now) ==
    [i \in DOMAIN tbl |->
        IF tbl[i].document_id = d
        THEN [f \in DOMAIN tbl[i] |->
                 IF f = "updated_at" THEN now
                 ELSE IF f \in DOMAIN fields THEN fields[f]
                 ELSE tbl[i][f]]
        ELSE tbl[i]]

\* ------------------------------------------------------- catalog upsert
\* db_doc of one parsed row, with the column defaults of the table
NewRow(doc, now) ==
    [document_id |-> doc.document_id,
     document_title_original |-> doc.document_title,
     full_text_content |-> doc.full_text_content,
     summary1_llm |-> Null,
     summary2_llm |-> Null,
     document_specific_terms |-> Null,
     status_enrichment |-> pending,
     llm_error_message |-> Null,
     created_at |-> now,
     updated_at |-> now]

\* faulty variant: an enriched or processing record is overwritten as well
UpsertDecisionBroken(status, forced) ==
    IF forced THEN "update"
    ELSE IF status = error_enrichment THEN "NameError"
    ELSE "update"

\* the branch taken for a row that already exists (lines 283-298);
\* the name force_reprocess_errors is bound nowhere in that scope
UpsertDecision(status, forced) ==
    IF forced THEN "update"
    ELSE IF status = error_enrichment THEN "NameError"
    ELSE IF status \notin {enriched, processing_llm} THEN "update"
    ELSE "skip"

UpdateFields(doc) ==
    [document_title_original |-> doc.document_title,
     full_text_content |-> doc.full_text_content,
     status_enrichment |-> pending,
     llm_error_message |-> Null]

\* the for loop over parsed_docs inside one transaction; exc names the
\* exception that ended it ("none" when every row was handled), skipped is
\* skipped_already_enriched_count
RECURSIVE UpsertRows(_, _, _, _, _)
UpsertRows(tbl, docs, force_ids, now, skipped) ==
    IF docs = <<>> THEN [exc |-> "none", tbl |-> tbl, skipped |-> skipped]
    ELSE
      LET doc == Head(docs)
          d == doc.document_id
          decision == IF HasRow(tbl, d)
                      THEN UpsertDecision(FetchOne(tbl, d).status_enrichment,
                                          d \in force_ids)
                      ELSE "insert"
      IN CASE decision = "insert" ->
                UpsertRows(Append(tbl, NewRow(doc, now)), Tail(docs),
                           force_ids, now, skipped)
           [] decision = "update" ->
                UpsertRows(SqlUpdate(tbl, d, UpdateFields(doc), now),
                           Tail(docs), force_ids, now, skipped)
           [] decision = "skip" ->
                UpsertRows(tbl, Tail(docs), force_ids, now, skipped + 1)
           [] OTHER -> [exc |-> decision, tbl |-> tbl, skipped |-> skipped]

\* faulty variant: every row is committed as it is written
InsertInitialDocumentsPerRow(tbl, r) == r.tbl

\* the committed table after the pass: one commit after the last row,
\* nothing persisted when an exception ends the pass early
InsertInitialDocuments(tbl, r) == IF r.exc = "none" THEN r.tbl ELSE tbl

\* --------------------------------------------------------- collaborators
Strip(s) == IF s = " " THEN "" ELSE s

\* what the HTTP call to the generation service can come back with
OllamaResponses == {"<http error>", "<no response field>", "<response not str>"}
                   \cup GenTexts
Raise == "<raise>"

\* LLMService.generate_text(prompt) for a given outcome of the HTTP call
GenerateText(resp) ==
    CASE resp = "<http error>" -> Null
      [] resp = "<no response field>" -> Null
      [] resp = "<response not str>" -> Raise
      [] OTHER -> Strip(resp)

BuildSummaryPrompt(full_text) ==
    IF full_text = Null \/ full_text = "" \/ Strip(full_text) = ""
    THEN "" ELSE "prompt"

\* GlossaryService.find_terms_in_text(text, include_details=False); the
\* GlossaryServiceGS subclass never sets normalized_terms_set
FindTermsInText(g, text) ==
    IF text = Null \/ text = "" THEN <<>>
    ELSE IF g = "gs" THEN Raise
    ELSE IF text = "dano moral" THEN <<"dano moral">> ELSE <<>>

JsonDumps(lst) == IF lst = <<>> THEN "[]" ELSE "[\"dano moral\"]"

\* ------------------------------------------------------------ the driver
Doc(d, t, c) == [document_id |-> d, document_title |-> t, full_text_content |-> c]

CatalogRows == {Doc(d, t, c) : d \in DocIds, t \in Titles, c \in Contents}

Catalogs == UNION {[1..n -> CatalogRows] : n \in 0..MaxRows}

NoLoc == [full_text |-> Null, summary1_llm |-> Null, summary2_llm |-> Null]

Zero == [d \in DocIds |-> 0]

NoCfg == [specific_ids |-> {}, force_reprocess_errors |-> FALSE, batch_size |-> 1]

\* name_error: the upsert pass raised; skipped: the count of skipped rows
\* the upsert pass logs when it ends; batch_abort: the batch-level handler
\* of enrich_batch ran; first_failed: per document, which of its generation
\* calls (1 or 2) was the first to fail in this run, 0 when none did
NoFlags == [name_error |-> FALSE, skipped |-> 0, batch_abort |-> FALSE,
            first_failed |-> Zero]

\* active_conversations = {} (117)
NoConversations == <<>>

\* no call of handle_whatsapp_message has been made
NoWebhook ==
    [status |-> 0, conversation_key |-> <<>>, message |-> Null,
     before |-> [state |-> "waiting_activation", user_query_for_search |-> Null,
                 last_doc_id_sent |-> Null],
     agent_action |-> [type |-> "none", query |-> Null, feedback |-> Null,
                       doc_id |-> Null, original_query |-> Null],
     log_payload |-> [sent_document_id |-> Null, original_user_query |-> Null,
                      feedback_sentiment |-> Null, user_feedback_raw |-> Null],
     texts |-> <<>>]

\* main_sqlite_to_es: its arguments, its locals (offset, the page in hand,
\* the two totals) and what it did so far: fetches counts the calls of
\* fetch_enriched_documents_from_sqlite, read lists the document_id of every
\* row they returned, sent holds the ids handed to the bulk helper,
\* completed counts the earlier runs that reached their end
\* a driver process that has not started a run
NoOther == [pc |-> "idle", parsed_docs |-> <<>>, cfg |-> NoCfg, sel |-> <<>>,
            pos |-> 0, loc |-> NoLoc, calls |-> Zero, attempts |-> Zero,
            flags |-> NoFlags]

\* no sheet at hand: the catalog is drawn when a run reads it
NoSheet == [ok |-> TRUE, rows |-> <<>>]

NoProj == [recreate |-> FALSE, batch_size_es |-> 1, dims |-> "4096",
           outcome |-> "none", offset |-> 0, page |-> <<>>, fetches |-> 0,
           read |-> <<>>, sent |-> {}, completed |-> 0,
           total_docs_indexed_successfully |-> 0, total_docs_with_errors |-> 0]

Init ==
    /\ store = <<>>
    /\ pc = "idle"
    /\ runs = 0
    /\ glossary \in GlossaryKinds
    /\ parsed_docs = <<>>
    /\ cfg = NoCfg
    /\ sel = <<>>
    /\ pos = 0
    /\ loc = NoLoc
    /\ calls = Zero
    /\ attempts = Zero
    /\ flags = NoFlags
    /\ es_index = {}
    /\ es_meta = Absent
    /\ proj = NoProj
    /\ gsheet_data = NoSheet
    /\ other = NoOther
    /\ batches = <<>>
    /\ active_conversations = NoConversations
    /\ webhook = NoWebhook

\* run_enrichment_pipeline up to the return of parse_documents (543-565):
\* the catalog is read.  The arguments are drawn where they are first
\* read: specific_ids (force_reprocess_ids) at line 287,
\* force_reprocess_errors at line 581, num_docs_to_process at line 597 and
\* the batch size at line 616
StartRun ==
    /\ pc = "idle"
    /\ runs < MaxRuns
    /\ runs' = runs + 1
    /\ parsed_docs' \in Catalogs
    /\ pc' = "upsert"
    /\ UNCHANGED <<store, glossary, cfg, sel, pos, loc, calls, attempts, flags,
                   es_index,
                   es_meta, proj, gsheet_data,
                   other, batches, active_conversations, webhook>>

\* the call of _insert_initial_documents_from_parser (567): the whole pass,
\* its commit or the exception that leaves it; the catalog is not read again
InsertInitial ==
    /\ pc = "upsert"
    /\ \E ids \in SUBSET DocIds :
         \E r \in {UpsertRows(store, parsed_docs, ids, runs, 0)} :
            /\ cfg' = [NoCfg EXCEPT !.specific_ids = ids]
            /\ store' = InsertInitialDocuments(store, r)
            /\ pc' = IF r.exc = "NameError" THEN "raised" ELSE "select"
            /\ flags' = [NoFlags EXCEPT !.name_error = (r.exc = "NameError"),
                                        !.skipped = r.skipped]
    /\ parsed_docs' = <<>>
    /\ UNCHANGED <<runs, glossary, sel, pos, loc, calls, attempts, es_index,
                   es_meta, proj, gsheet_data,
                   other, batches, active_conversations, webhook>>

\* faulty variant: records left in processing_llm are picked up again
SelectedWithProcessing(tbl, c) ==
    {i \in DOMAIN tbl :
        /\ \/ tbl[i].status_enrichment \in {pending, processing_llm}
           \/ c.force_reprocess_errors /\ tbl[i].status_enrichment = error_enrichment
        /\ c.specific_ids # {} => tbl[i].document_id \in c.specific_ids}

\* faulty variant: error_enrichment is always among the statuses
SelectedWithErrors(tbl, c) ==
    {i \in DOMAIN tbl :
        /\ tbl[i].status_enrichment \in {pending, error_enrichment}
        /\ c.specific_ids # {} => tbl[i].document_id \in c.specific_ids}

\* rows the selection query matches (580-592)
Selected(tbl, c) ==
    {i \in DOMAIN tbl :
        /\ \/ tbl[i].status_enrichment = pending
           \/ c.force_reprocess_errors /\ tbl[i].status_enrichment = error_enrichment
        /\ c.specific_ids # {} => tbl[i].document_id \in c.specific_ids}

\* ORDER BY created_at ASC: every order of the matching rows that is
\* ascending in created_at
SelectionOrders(tbl, c) ==
    LET m == Selected(tbl, c)
        n == Cardinality(m)
    IN {s \in [1..n -> m] :
          /\ \A i, j \in 1..n : i # j => s[i] # s[j]
          /\ \A i, j \in 1..n : i < j => tbl[s[i]].created_at <= tbl[s[j]].created_at}

\* LIMIT ?, appended only without specific_ids and for a positive limit
Limit(s, c, n) ==
    IF c.specific_ids = {} /\ n > 0 /\ n < Len(s) THEN SubSeq(s, 1, n) ELSE s

\* the selection query (574-608)
Select ==
    /\ pc = "select"
    /\ \E fre \in BOOLEAN, n \in Limits, bs \in BatchSizes :
         /\ cfg' = [cfg EXCEPT !.force_reprocess_errors = fre, !.batch_size = bs]
         /\ \E s \in SelectionOrders(store, cfg') :
              /\ sel' = [k \in 1..Len(Limit(s, cfg', n)) |->
                            store[Limit(s, cfg', n)[k]].document_id]
              /\ pc' = IF Len(s) = 0 THEN "index" ELSE "check"
              /\ pos' = IF Len(s) = 0 THEN 0 ELSE 1
    /\ flags' = [flags EXCEPT !.skipped = 0]
    /\ UNCHANGED <<store, runs, glossary, parsed_docs, loc, calls, attempts,
                   es_index,
                   es_meta, proj, gsheet_data,
                   other, batches, active_conversations, webhook>>

\* ---------------------------------------------------------- enrich_batch
\* the batch-level handler ends the batch: the loop goes on with the first
\* id of the next batch
NextBatchPos(p, bs) == (((p - 1) \div bs) + 1) * bs + 1

\* faulty variant: `break` in place of `continue`
NextPosBreak(p) == NextBatchPos(p, cfg.batch_size)

\* `continue`: the next id of the list (the batches are consecutive slices)
NextPos(p) == p + 1

PcAt(p) == IF p <= Len(sel) THEN "check" ELSE "index"

\* faulty variant: only `not row`
MissingContentRowOnly(tbl, d) == ~HasRow(tbl, d)

\* `not row or not row["full_text_content"]`
MissingContent(tbl, d) ==
    \/ ~HasRow(tbl, d)
    \/ FetchOne(tbl, d).full_text_content \in {Null, ""}

Coalesce(a, b) == IF a # Null THEN a ELSE b

Bump(f, d) == [f EXCEPT ![d] = @ + 1]

\* the UPDATE of lines 387-389
MissingContentFields(row) ==
    [status_enrichment |-> error_enrichment,
     llm_error_message |-> Coalesce(row.llm_error_message, MissingMsg)]

\* faulty variant: the status is not written
ProcessingMarkNoStatus == [llm_error_message |-> Null]

\* the UPDATE of lines 394-396
ProcessingMark == [status_enrichment |-> processing_llm, llm_error_message |-> Null]

\* faulty variant: the mark leaves the earlier error message in place
MarkProcessingKeepsMessage(tbl, d, now) ==
    SqlUpdate(tbl, d, [status_enrichment |-> processing_llm], now)

\* faulty variant: the mark is written only over status pending
MarkProcessingIfPending(tbl, d, now) ==
    IF FetchOne(tbl, d).status_enrichment = pending
    THEN SqlUpdate(tbl, d, ProcessingMark, now)
    ELSE tbl

\* cursor.execute of the UPDATE ... WHERE document_id = ? (394-396) and the
\* commit (397): no condition on the status the record has by now
MarkProcessing(tbl, d, now) == SqlUpdate(tbl, d, ProcessingMark, now)

\* faulty variant: a generation call is issued before the content is looked at
CheckContentCallsFirst ==
    /\ pc = "check"
    /\ LET d == sel[pos]
       IN /\ attempts' = Bump(attempts, d)
          /\ calls' = Bump(calls, d)
          /\ IF MissingContent(store, d)
             THEN /\ store' = IF HasRow(store, d)
                              THEN SqlUpdate(store, d,
                                     MissingContentFields(FetchOne(store, d)), runs)
                              ELSE store
                  /\ pos' = NextPos(pos)
                  /\ pc' = PcAt(NextPos(pos))
                  /\ loc' = NoLoc
             ELSE /\ store' = MarkProcessing(store, d, runs)
                  /\ loc' = [full_text |-> FetchOne(store, d).full_text_content,
                             summary1_llm |-> Null, summary2_llm |-> Null]
                  /\ pos' = pos
                  /\ pc' = "gen1"
    /\ UNCHANGED <<runs, glossary, parsed_docs, cfg, sel, flags, es_index,
                   es_meta, proj, gsheet_data,
                   other, batches, active_conversations, webhook>>

\* lines 376-397: read the content, then either the missing-content error
\* or the processing mark, each committed; no generation call is involved
CheckContent ==
    /\ pc = "check"
    /\ LET d == sel[pos]
       IN /\ attempts' = Bump(attempts, d)
          /\ calls' = calls
          /\ IF MissingContent(store, d)
             THEN /\ store' = IF HasRow(store, d)
                              THEN SqlUpdate(store, d,
                                     MissingContentFields(FetchOne(store, d)), runs)
                              ELSE store
                  /\ pos' = NextPos(pos)
                  /\ pc' = PcAt(NextPos(pos))
                  /\ loc' = NoLoc
             ELSE /\ store' = MarkProcessing(store, d, runs)
                  /\ loc' = [full_text |-> FetchOne(store, d).full_text_content,
                             summary1_llm |-> Null, summary2_llm |-> Null]
                  /\ pos' = pos
                  /\ pc' = "gen1"
    /\ UNCHANGED <<runs, glossary, parsed_docs, cfg, sel, flags, es_index,
                   es_meta, proj, gsheet_data,
                   other, batches, active_conversations, webhook>>

\* faulty variant: the record is tried again after the error write
LlmFailedRetry(d) ==
    /\ store' = SqlUpdate(store, d, [status_enrichment |-> error_enrichment,
                                     llm_error_message |-> LlmErrMsg], runs)
    /\ pos' = pos
    /\ pc' = "check"
    /\ loc' = NoLoc

\* the except branch of the generation calls (409-416)
LlmFailed(d) ==
    /\ store' = SqlUpdate(store, d, [status_enrichment |-> error_enrichment,
                                     llm_error_message |-> LlmErrMsg], runs)
    /\ pos' = NextPos(pos)
    /\ pc' = PcAt(NextPos(pos))
    /\ loc' = NoLoc

\* a generation call fails when the HTTP call fails or the response carries
\* no usable text
CallFailed(resp) == resp \notin GenTexts

NoteFailure(d, n, resp) ==
    IF CallFailed(resp) /\ flags.first_failed[d] = 0
    THEN [flags EXCEPT !.first_failed[d] = n]
    ELSE flags

\* lines 403-405: the technical summary
GenTechnical ==
    /\ pc = "gen1"
    /\ LET d == sel[pos]
       IN IF BuildSummaryPrompt(loc.full_text) = ""
          THEN /\ pc' = "gen2"
               /\ UNCHANGED <<store, pos, loc, calls, flags>>
          ELSE \E resp \in OllamaResponses :
                 /\ calls' = Bump(calls, d)
                 /\ flags' = NoteFailure(d, 1, resp)
                 /\ IF GenerateText(resp) = Raise
                    THEN LlmFailed(d)
                    ELSE /\ loc' = [loc EXCEPT !.summary1_llm = GenerateText(resp)]
                         /\ pc' = "gen2"
                         /\ UNCHANGED <<store, pos>>
    /\ UNCHANGED <<runs, glossary, parsed_docs, cfg, sel, attempts, es_index,
                   es_meta, proj, gsheet_data,
                   other, batches, active_conversations, webhook>>

\* lines 406-408: the plain-language summary
GenNonTechnical ==
    /\ pc = "gen2"
    /\ LET d == sel[pos]
       IN IF BuildSummaryPrompt(loc.full_text) = ""
          THEN /\ pc' = "finish"
               /\ UNCHANGED <<store, pos, loc, calls, flags>>
          ELSE \E resp \in OllamaResponses :
                 /\ calls' = Bump(calls, d)
                 /\ flags' = NoteFailure(d, 2, resp)
                 /\ IF GenerateText(resp) = Raise
                    THEN LlmFailed(d)
                    ELSE /\ loc' = [loc EXCEPT !.summary2_llm = GenerateText(resp)]
                         /\ pc' = "finish"
                         /\ UNCHANGED <<store, pos>>
    /\ UNCHANGED <<runs, glossary, parsed_docs, cfg, sel, attempts, es_index,
                   es_meta, proj, gsheet_data,
                   other, batches, active_conversations, webhook>>

\* faulty variant: a value is written only where the record has none
WriteEnrichedMerged(tbl, d, l, terms, now) ==
    SqlUpdate(tbl, d,
       [summary1_llm |-> Coalesce(FetchOne(tbl, d).summary1_llm, l.summary1_llm),
        summary2_llm |-> Coalesce(FetchOne(tbl, d).summary2_llm, l.summary2_llm),
        document_specific_terms |->
           Coalesce(FetchOne(tbl, d).document_specific_terms, JsonDumps(terms)),
        status_enrichment |-> enriched,
        llm_error_message |-> Null], now)

\* update_data and the one UPDATE built from it, then the commit (426-437)
WriteEnriched(tbl, d, l, terms, now) ==
    SqlUpdate(tbl, d,
       [summary1_llm |-> l.summary1_llm,
        summary2_llm |-> l.summary2_llm,
        document_specific_terms |-> JsonDumps(terms),
        status_enrichment |-> enriched,
        llm_error_message |-> Null], now)

\* faulty variant: the status and the first summary are committed, the
\* second summary and the terms are not
FinishPartial ==
    /\ pc = "finish"
    /\ LET d == sel[pos]
           terms == FindTermsInText(glossary, loc.full_text)
       IN IF terms = Raise
          THEN /\ pos' = NextBatchPos(pos, cfg.batch_size)
               /\ pc' = PcAt(NextBatchPos(pos, cfg.batch_size))
               /\ flags' = [flags EXCEPT !.batch_abort = TRUE]
               /\ store' = store
          ELSE /\ store' = SqlUpdate(store, d,
                              [summary1_llm |-> loc.summary1_llm,
                               status_enrichment |-> enriched,
                               llm_error_message |-> Null], runs)
               /\ pos' = NextPos(pos)
               /\ pc' = PcAt(NextPos(pos))
               /\ flags' = flags
    /\ loc' = NoLoc
    /\ UNCHANGED <<runs, glossary, parsed_docs, cfg, sel, calls, attempts, es_index,
                   es_meta, proj, gsheet_data,
                   other, batches, active_conversations, webhook>>

\* lines 421-438: glossary terms and the final write; an exception of the
\* glossary service reaches the batch-level handler (442-445)
Finish ==
    /\ pc = "finish"
    /\ LET d == sel[pos]
           terms == FindTermsInText(glossary, loc.full_text)
       IN IF terms = Raise
          THEN /\ pos' = NextBatchPos(pos, cfg.batch_size)
               /\ pc' = PcAt(NextBatchPos(pos, cfg.batch_size))
               /\ flags' = [flags EXCEPT !.batch_abort = TRUE]
               /\ store' = store
          ELSE /\ store' = WriteEnriched(store, d, loc, terms, runs)
               /\ pos' = NextPos(pos)
               /\ pc' = PcAt(NextPos(pos))
               /\ flags' = flags
    /\ loc' = NoLoc
    /\ UNCHANGED <<runs, glossary, parsed_docs, cfg, sel, calls, attempts, es_index,
                   es_meta, proj, gsheet_data,
                   other, batches, active_conversations, webhook>>

\* the locals of the run are gone when run_enrichment_pipeline is left
Return ==
    /\ parsed_docs' = <<>>
    /\ cfg' = NoCfg
    /\ sel' = <<>>
    /\ pos' = 0
    /\ loc' = NoLoc
    /\ calls' = Zero
    /\ attempts' = Zero
    /\ flags' = NoFlags

\* ------------------------------------------------- stored list fields
\* the text a list column can hold, and what json.loads makes of it
JsonNull == "<json null>"
JsonOne == "<json 1>"

StoredValues ==
    {Null, "", " ", "[]", "[\"dano moral\"]", "[\"a\", null, 1]",
     "\"dano moral\"", "{}", "7", "dano moral", "[\"a\","}

JsonLoads(v) ==
    CASE v = "[]" -> [ok |-> TRUE, type |-> "list", val |-> <<>>]
      [] v = "[\"dano moral\"]" ->
            [ok |-> TRUE, type |-> "list", val |-> <<"dano moral">>]
      [] v = "[\"a\", null, 1]" ->
            [ok |-> TRUE, type |-> "list", val |-> <<"a", JsonNull, JsonOne>>]
      [] v = "\"dano moral\"" ->
            [ok |-> TRUE, type |-> "str", val |-> <<"dano moral">>]
      [] v \in {"{}", "7"} -> [ok |-> TRUE, type |-> "other", val |-> <<>>]
      [] OTHER -> [ok |-> FALSE, type |-> "JSONDecodeError", val |-> <<>>]

\* str(item)
PyStr(item) == IF item = JsonOne THEN "1" ELSE item

\* [str(item) for item in parsed_value if item is not None]
RECURSIVE StrItems(_)
StrItems(lst) ==
    IF lst = <<>> THEN <<>>
    ELSE IF Head(lst) = JsonNull THEN StrItems(Tail(lst))
    ELSE <<PyStr(Head(lst))>> \o StrItems(Tail(lst))

\* the decode of one list field in fetch_enriched_documents_from_sqlite
\* (run_ingestion_pipeline.py 79-102); a TEXT column holds a str or None
DecodeJsonField(v) ==
    IF v # Null /\ v # ""
    THEN LET r == JsonLoads(v)
         IN IF r.ok
            THEN CASE r.type = "list" -> StrItems(r.val)
                   [] r.type = "str" -> r.val
                   [] OTHER -> <<>>
            ELSE IF Strip(v) # "" THEN <<v>> ELSE <<>>
    ELSE <<>>

\* json.loads(doc_dict.get("document_specific_terms", "[]") or "[]") of
\* index_enriched_documents_to_elasticsearch (metadata_enricher.py 502)
EnricherDecode(v) ==
    LET r == JsonLoads(IF v = Null \/ v = "" THEN "[]" ELSE v)
    IN IF r.ok THEN r.val ELSE Raise

\* ------------------------------------------------------------ projection
\* the rows of SELECT * ... WHERE status_enrichment = 'enriched' (463-464)
EnrichedRows(tbl) == {i \in DOMAIN tbl : tbl[i].status_enrichment = enriched}

\* self.es_service.index_document(...) of line 509: ElasticsearchService
\* defines bulk_index_documents, create_index_if_not_exists and delete_index
\* and no index_document, so the call raises AttributeError before anything
\* is sent
IndexDocument(idx, row) == Raise

\* lines 449-541: the body of every enriched row is built, its list field
\* decoded, and handed to index_document; a decode that raises leaves the
\* loop (537-539), a row whose index call raises is counted as failed
\* (518-520) and the loop goes on
RECURSIVE IndexRows(_, _, _)
IndexRows(idx, tbl, rows) ==
    IF rows = {} THEN idx
    ELSE LET i == CHOOSE k \in rows : \A m \in rows : k <= m
             r == IndexDocument(idx, tbl[i])
         IN IF EnricherDecode(tbl[i].document_specific_terms) = Raise
            THEN idx
            ELSE IndexRows(IF r = Raise THEN idx ELSE r, tbl, rows \ {i})

IndexEnriched ==
    /\ pc = "index"
    /\ es_index' = IndexRows(es_index, store, EnrichedRows(store))
    /\ pc' = "idle"
    /\ Return
    /\ UNCHANGED <<store, runs, glossary,
                   es_meta, proj, gsheet_data,
                   other, batches, active_conversations, webhook>>

\* the NameError of the upsert pass leaves run_enrichment_pipeline: nothing
\* after the upsert is executed
Propagate ==
    /\ pc = "raised"
    /\ pc' = "idle"
    /\ Return
    /\ UNCHANGED <<store, runs, glossary, es_index,
                   es_meta, proj, gsheet_data,
                   other, batches, active_conversations, webhook>>

Next ==
    \/ StartRun
    \/ InsertInitial
    \/ Select
    \/ CheckContent
    \/ GenTechnical
    \/ GenNonTechnical
    \/ Finish
    \/ IndexEnriched
    \/ Propagate

Spec == Init /\ [][Next]_vars

\* ------------------------------------------------------ interrupted run
\* The process is stopped (a KeyboardInterrupt, which no `except Exception`
\* of enrich_batch catches, or a kill) while a record is being enriched:
\* the processing mark is committed (395-397), nothing later is, the
\* connection is closed (446-447) and the locals of the run are gone.
Interrupt ==
    /\ pc \in {"gen1", "gen2", "finish"}
    /\ pc' = "idle"
    /\ Return
    /\ UNCHANGED <<store, runs, glossary, es_index, es_meta, proj, gsheet_data,
                   other, batches, active_conversations, webhook>>

NextCrash ==
    \/ Next
    \/ Interrupt

\* the runs are made with the glossary service that does not raise
\* (GlossaryService, built from the TSV file), so that a record found in
\* processing_llm between two runs was left there by an interrupt
InitCrash ==
    /\ Init
    /\ glossary = "tsv"

SpecCrash == InitCrash /\ [][NextCrash]_vars

\* ------------------------------------------------------ the search index
\* collation order of document_id
IdRank(d) == IF d = "D1" THEN 1 ELSE 2

\* str(doc_dict[date_field])
TsStr(t) == <<"str", t>>

\* one element of docs_for_es: dict(row_sqlite) with the list field
\* decoded, the dates as str and content_embedding added (72-110)
DocDict(row) ==
    [f \in DOMAIN row \cup {"content_embedding"} |->
        CASE f = "content_embedding" -> Null
          [] f = "document_specific_terms" -> DecodeJsonField(row[f])
          [] f \in {"created_at", "updated_at"} -> TsStr(row[f])
          [] OTHER -> row[f]]

\* faulty variant: no WHERE status_enrichment = 'enriched'
AllRowsById(tbl) ==
    CHOOSE s \in [1..Len(tbl) -> DOMAIN tbl] :
       /\ \A i, j \in 1..Len(tbl) : i # j => s[i] # s[j]
       /\ \A i, j \in 1..Len(tbl) :
             i < j => IdRank(tbl[s[i]].document_id) <= IdRank(tbl[s[j]].document_id)

\* SELECT * ... WHERE status_enrichment = 'enriched' ORDER BY document_id
EnrichedById(tbl) ==
    LET m == EnrichedRows(tbl)
        n == Cardinality(m)
    IN CHOOSE s \in [1..n -> m] :
          /\ \A i, j \in 1..n : i # j => s[i] # s[j]
          /\ \A i, j \in 1..n :
                i < j => IdRank(tbl[s[i]].document_id) < IdRank(tbl[s[j]].document_id)

\* faulty variant: the OFFSET clause is added only next to a positive limit
LimitNoOffset(s, limit, offset) ==
    LET from == IF offset > 0 /\ limit > 0 THEN offset + 1 ELSE 1
        upto == IF limit > 0 /\ from + limit - 1 < Len(s)
                THEN from + limit - 1 ELSE Len(s)
    IN SubSeq(s, from, upto)

\* LIMIT ? for a positive limit, LIMIT -1 otherwise; OFFSET ? for a
\* positive offset (56-63)
LimitOffset(s, limit, offset) ==
    LET from == IF offset > 0 THEN offset + 1 ELSE 1
        upto == IF limit > 0 /\ from + limit - 1 < Len(s)
                THEN from + limit - 1 ELSE Len(s)
    IN SubSeq(s, from, upto)

\* fetch_enriched_documents_from_sqlite(limit, offset)
FetchEnriched(tbl, limit, offset) ==
    LET s == LimitOffset(EnrichedById(tbl), limit, offset)
    IN [k \in 1..Len(s) |-> DocDict(tbl[s[k]])]

\* doc_data_from_parser.get("id"), kept when truthy (147-151)
HasId(doc) == "id" \in DOMAIN doc /\ doc.id \notin {Null, ""}

\* the _source of one bulk action (155-164)
SourcePayload(doc) ==
    [k \in (DOMAIN doc \ {"id"}) \cup {"content"} |->
        IF k = "content"
        THEN IF "content" \in DOMAIN doc /\ doc.content # Null
             THEN doc.content ELSE ""
        ELSE doc[k]]

\* the actions list of bulk_index_documents (145-166)
BulkActions(documents) ==
    SelectSeq([k \in 1..Len(documents) |->
                  IF HasId(documents[k])
                  THEN [has |-> TRUE, id |-> documents[k].id,
                        source |-> SourcePayload(documents[k])]
                  ELSE [has |-> FALSE, id |-> Null, source |-> <<>>]],
              LAMBDA a : a.has)

ActionIds(documents) ==
    {BulkActions(documents)[k].id : k \in 1..Len(BulkActions(documents))}

\* an index request overwrites the document of the same _id
RECURSIVE IndexPut(_, _, _)
IndexPut(idx, actions, accepted) ==
    IF actions = <<>> THEN idx
    ELSE LET a == Head(actions)
         IN IndexPut(IF a.id \in accepted
                     THEN {e \in idx : e.id # a.id}
                          \cup {[id |-> a.id, source |-> a.source]}
                     ELSE idx,
                     Tail(actions), accepted)

\* what the bulk helper can come back with: an exception, or the set of
\* ids the index accepted (the others are rejected one by one)
BulkResponses(documents) ==
    [exc : BOOLEAN, accepted : SUBSET ActionIds(documents)]

\* faulty variant: the index is emptied and then holds only what the call
\* wrote
BulkReplaceDocuments(idx, documents, resp) ==
    LET actions == BulkActions(documents)
        ids == ActionIds(documents)
    IN IF actions = <<>>
       THEN [idx |-> {}, sent |-> {}, success_count |-> 0, errors |-> 0]
       ELSE IF resp.exc
       THEN [idx |-> {}, sent |-> ids, success_count |-> 0, errors |-> 1]
       ELSE [idx |-> IndexPut({}, actions, resp.accepted), sent |-> ids,
             success_count |-> Cardinality(resp.accepted),
             errors |-> Cardinality(ids \ resp.accepted)]

\* ElasticsearchService.bulk_index_documents (140-201): the index after the
\* call, what was handed to the bulk helper, and the returned
\* (success_count, errors), errors by its length
BulkIndexDocuments(idx, documents, resp) ==
    LET actions == BulkActions(documents)
        ids == ActionIds(documents)
    IN IF actions = <<>>
       THEN [idx |-> idx, sent |-> {}, success_count |-> 0, errors |-> 0]
       ELSE IF resp.exc
       THEN [idx |-> idx, sent |-> ids, success_count |-> 0, errors |-> 1]
       ELSE [idx |-> IndexPut(idx, actions, resp.accepted), sent |-> ids,
             success_count |-> Cardinality(resp.accepted),
             errors |-> Cardinality(ids \ resp.accepted)]

\* ElasticsearchService.delete_index (203-213): a failing delete call is
\* logged and answered with False, a failing exists call raises
DeleteIndex(meta, idx, out) ==
    IF out = "unreachable" THEN [exc |-> TRUE, meta |-> meta, idx |-> idx]
    ELSE IF meta = Absent \/ out = "fails"
    THEN [exc |-> FALSE, meta |-> meta, idx |-> idx]
    ELSE [exc |-> FALSE, meta |-> Absent, idx |-> {}]

\* ElasticsearchService.create_index_if_not_exists (46-138)
CreateIndexIfNotExists(meta, dims, out) ==
    IF out = "unreachable" THEN [exc |-> TRUE, meta |-> meta]
    ELSE IF meta # Absent THEN [exc |-> FALSE, meta |-> meta]
    ELSE IF out = "fails" THEN [exc |-> TRUE, meta |-> meta]
    ELSE [exc |-> FALSE, meta |-> dims]

\* ------------------------------------------------- main_sqlite_to_es
\* lines 121-134: the arguments and settings of the run, and the
\* construction of ElasticsearchService, which raises when the ping fails
ProjStart ==
    /\ pc = "idle"
    /\ runs < MaxProjRuns
    /\ runs' = runs + 1
    /\ \E rec \in BOOLEAN, bs \in BatchSizesEs, dims \in EmbeddingDims,
          out \in {"ok", "unreachable"} :
         /\ proj' = [NoProj EXCEPT !.recreate = rec, !.batch_size_es = bs,
                                   !.dims = dims,
                                   !.completed = proj.completed
                                       + IF proj.outcome = "done" THEN 1 ELSE 0,
                                   !.outcome = IF out = "ok" THEN "running"
                                               ELSE "no_service"]
         /\ pc' = IF out = "ok" THEN "p_ensure" ELSE "idle"
    /\ UNCHANGED <<store, glossary, parsed_docs, cfg, sel, pos, loc, calls,
                   attempts, flags, es_index, es_meta, gsheet_data,
                   other, batches, active_conversations, webhook>>

\* faulty variant: the run goes on after the exception
EnsureIndexGoesOn ==
    /\ pc = "p_ensure"
    /\ \E dout, cout \in EsOutcomes :
         LET d == IF proj.recreate THEN DeleteIndex(es_meta, es_index, dout)
                  ELSE [exc |-> FALSE, meta |-> es_meta, idx |-> es_index]
             c == CreateIndexIfNotExists(d.meta, proj.dims, cout)
         IN /\ es_index' = d.idx
            /\ es_meta' = IF d.exc THEN d.meta ELSE c.meta
            /\ IF d.exc \/ c.exc
               THEN /\ proj' = [proj EXCEPT !.outcome = "no_index"]
                    /\ pc' = "p_fetch"
               ELSE /\ proj' = proj
                    /\ pc' = "p_fetch"
    /\ UNCHANGED <<store, runs, glossary, parsed_docs, cfg, sel, pos, loc,
                   calls, attempts, flags, gsheet_data,
                   other, batches, active_conversations, webhook>>

\* lines 136-152: delete_index when the recreate flag is set (its result
\* is not looked at), then create_index_if_not_exists; an exception of
\* either ends the run
EnsureIndex ==
    /\ pc = "p_ensure"
    /\ \E dout, cout \in EsOutcomes :
         LET d == IF proj.recreate THEN DeleteIndex(es_meta, es_index, dout)
                  ELSE [exc |-> FALSE, meta |-> es_meta, idx |-> es_index]
             c == CreateIndexIfNotExists(d.meta, proj.dims, cout)
         IN /\ es_index' = d.idx
            /\ es_meta' = IF d.exc THEN d.meta ELSE c.meta
            /\ IF d.exc \/ c.exc
               THEN /\ proj' = [proj EXCEPT !.outcome = "no_index"]
                    /\ pc' = "idle"
               ELSE /\ proj' = proj
                    /\ pc' = "p_fetch"
    /\ UNCHANGED <<store, runs, glossary, parsed_docs, cfg, sel, pos, loc,
                   calls, attempts, flags, gsheet_data,
                   other, batches, active_conversations, webhook>>

\* lines 157-163: the next page; an empty page ends the loop and the run
FetchPage ==
    /\ pc = "p_fetch"
    /\ LET docs == FetchEnriched(store, proj.batch_size_es, proj.offset)
       IN /\ proj' = [proj EXCEPT
                        !.fetches = @ + 1,
                        !.read = @ \o [k \in 1..Len(docs) |-> docs[k].document_id],
                        !.page = docs,
                        !.outcome = IF docs = <<>> THEN "done" ELSE @]
          /\ pc' = IF docs = <<>> THEN "idle" ELSE "p_bulk"
    /\ UNCHANGED <<store, runs, glossary, parsed_docs, cfg, sel, pos, loc,
                   calls, attempts, flags, es_index, es_meta, gsheet_data,
                   other, batches, active_conversations, webhook>>

\* lines 165-184: the page goes to bulk_index_documents, its counts are
\* added to the totals and the offset advances by the length of the page
BulkPage ==
    /\ pc = "p_bulk"
    /\ \E resp \in BulkResponses(proj.page) :
         LET r == BulkIndexDocuments(es_index, proj.page, resp)
         IN /\ es_index' = r.idx
            /\ proj' = [proj EXCEPT
                          !.sent = @ \cup r.sent,
                          !.total_docs_indexed_successfully = @ + r.success_count,
                          !.total_docs_with_errors = @ + r.errors,
                          !.offset = @ + Len(proj.page),
                          !.page = <<>>]
    /\ pc' = "p_fetch"
    /\ UNCHANGED <<store, runs, glossary, parsed_docs, cfg, sel, pos, loc,
                   calls, attempts, flags, es_meta, gsheet_data,
                   other, batches, active_conversations, webhook>>

\* the document of the standalone test of indexer_service.py (250-262)
DummyDoc ==
    [id |-> "pet001-test-idx", document_id |-> "pet001-test-idx",
     content |-> "conteudo", content_embedding |-> Null]

\* the standalone test of ElasticsearchService (indexer_service.py 217-280)
\* run against the target index: delete, create, bulk-index one document;
\* an exception ends it where it is raised
StandaloneTest ==
    /\ pc = "idle"
    /\ \E init, dout, cout \in EsOutcomes, dims \in EmbeddingDims,
          resp \in BulkResponses(<<DummyDoc>>) :
         LET d == DeleteIndex(es_meta, es_index, dout)
             c == CreateIndexIfNotExists(d.meta, dims, cout)
             r == BulkIndexDocuments(d.idx, <<DummyDoc>>, resp)
         IN IF init # "ok" \/ d.exc
            THEN UNCHANGED <<es_index, es_meta>>
            ELSE /\ es_meta' = c.meta
                 /\ es_index' = IF c.exc THEN d.idx ELSE r.idx
    /\ UNCHANGED <<store, pc, runs, glossary, parsed_docs, cfg, sel, pos, loc,
                   calls, attempts, flags, proj, gsheet_data,
                   other, batches, active_conversations, webhook>>

\* the tables the enrichment leaves behind: per document a pending row, an
\* error row, or an enriched row (of a text with a glossary term, or of a
\* blank text, for which no summary is requested)
ProjRow(d, st, c) ==
    [NewRow(Doc(d, "titulo", c), 1) EXCEPT
        !.status_enrichment = st,
        !.summary1_llm = IF st = enriched /\ c # " " THEN "resumo" ELSE Null,
        !.summary2_llm = IF st = enriched /\ c # " " THEN "resumo" ELSE Null,
        !.document_specific_terms =
            IF st = enriched THEN JsonDumps(FindTermsInText("tsv", c)) ELSE Null,
        !.llm_error_message = IF st = error_enrichment THEN LlmErrMsg ELSE Null]

ProjRows(d) ==
    {ProjRow(d, pending, "dano moral"), ProjRow(d, error_enrichment, "dano moral"),
     ProjRow(d, enriched, "dano moral"), ProjRow(d, enriched, " ")}

ProjStores ==
    {<<>>} \cup {<<r>> : r \in UNION {ProjRows(d) : d \in DocIds}}
    \cup {<<r1, r2>> : r1 \in ProjRows("D1"), r2 \in ProjRows("D2")}
    \cup {<<r2, r1>> : r1 \in ProjRows("D1"), r2 \in ProjRows("D2")}

InitProj ==
    /\ store \in ProjStores
    /\ pc = "idle"
    /\ runs = 0
    /\ glossary = "tsv"
    /\ parsed_docs = <<>>
    /\ cfg = NoCfg
    /\ sel = <<>>
    /\ pos = 0
    /\ loc = NoLoc
    /\ calls = Zero
    /\ attempts = Zero
    /\ flags = NoFlags
    /\ es_index = {}
    /\ es_meta = Absent
    /\ proj = NoProj
    /\ gsheet_data = NoSheet
    /\ other = NoOther
    /\ batches = <<>>
    /\ active_conversations = NoConversations
    /\ webhook = NoWebhook

\* one enriched row whose list column holds any of the stored values
InitDecode ==
    /\ store \in {<<[ProjRow("D1", enriched, "dano moral") EXCEPT
                        !.document_specific_terms = v]>> : v \in StoredValues}
    /\ pc = "idle"
    /\ runs = 0
    /\ glossary = "tsv"
    /\ parsed_docs = <<>>
    /\ cfg = NoCfg
    /\ sel = <<>>
    /\ pos = 0
    /\ loc = NoLoc
    /\ calls = Zero
    /\ attempts = Zero
    /\ flags = NoFlags
    /\ es_index = {}
    /\ es_meta = Absent
    /\ proj = NoProj
    /\ gsheet_data = NoSheet
    /\ other = NoOther
    /\ batches = <<>>
    /\ active_conversations = NoConversations
    /\ webhook = NoWebhook

NextProj ==
    \/ ProjStart
    \/ EnsureIndex
    \/ FetchPage
    \/ BulkPage
    \/ StandaloneTest

SpecProj == InitProj /\ [][NextProj]_vars

SpecDecode == InitDecode /\ [][NextProj]_vars

\* main_sqlite_to_es is sequential code with no wait in its loop but the
\* sleep of line 179: a fetch that is due is made, and so is the bulk call
\* of a page in hand
\* the last run of main_sqlite_to_es over any table the enrichment leaves
\* behind
InitProjFair ==
    /\ store \in ProjStores
    /\ pc = "idle"
    /\ runs = MaxProjRuns - 1
    /\ glossary = "tsv"
    /\ parsed_docs = <<>>
    /\ cfg = NoCfg
    /\ sel = <<>>
    /\ pos = 0
    /\ loc = NoLoc
    /\ calls = Zero
    /\ attempts = Zero
    /\ flags = NoFlags
    /\ es_index = {}
    /\ es_meta = Absent
    /\ proj = NoProj
    /\ gsheet_data = NoSheet
    /\ other = NoOther
    /\ batches = <<>>
    /\ active_conversations = NoConversations
    /\ webhook = NoWebhook

SpecProjFair ==
    InitProjFair /\ [][NextProj]_vars /\ WF_vars(FetchPage) /\ WF_vars(BulkPage)

\* ------------------------------------------------------------ the catalog
\* file_name of a sheet row: none, a file that is not there, a file with
\* blank text, a file with a petition
FileNames == {"", "ausente.txt", "vazia.txt", "peticao.txt"}

\* open(content_path).read() of lines 126-128; None for FileNotFoundError
\* and every other exception (129-135) and for a row without file_name
\* (136-140)
ReadFile(f) ==
    CASE f = "peticao.txt" -> "dano moral"
      [] f = "vazia.txt" -> " "
      [] OTHER -> Null

SheetRow(d, t, f) == [document_id |-> d, name_text |-> t, file_name |-> f]

SheetRows == {SheetRow(d, t, f) : d \in DocIds, t \in Titles, f \in FileNames}

\* worksheet.get_all_records() (95-98), or the failure to get them
Sheets ==
    {[ok |-> TRUE, rows |-> r] :
        r \in UNION {[1..n -> SheetRows] : n \in 0..MaxRows}}
    \cup {[ok |-> FALSE, rows |-> <<>>]}

\* the for loop of lines 101-144: one parsed document per row
RECURSIVE ParseRows(_)
ParseRows(rows) ==
    IF rows = <<>> THEN <<>>
    ELSE <<Doc(Head(rows).document_id, Head(rows).name_text,
               ReadFile(Head(rows).file_name))>> \o ParseRows(Tail(rows))

\* DocumentParserGS.parse_documents: every exception of the sheet access is
\* logged and the empty list returned (150-162)
ParseDocuments(g) == IF g.ok THEN ParseRows(g.rows) ELSE <<>>

\* the call of parse_documents (565) of a run that finds the sheet g
ParseStep ==
    /\ pc = "parse"
    /\ parsed_docs' = ParseDocuments(gsheet_data)
    /\ pc' = "upsert"
    /\ UNCHANGED <<store, runs, glossary, cfg, sel, pos, loc, calls, attempts,
                   flags, es_index, es_meta, proj, gsheet_data,
                   other, batches, active_conversations, webhook>>

\* the tables a run can find: empty, or one record left by an earlier run
ParseStores == {<<>>} \cup {<<r>> : r \in ProjRows("D2")}

\* a run of run_enrichment_pipeline about to read a given sheet
InitParse ==
    /\ store \in ParseStores
    /\ pc = "parse"
    /\ runs = 2
    /\ glossary \in GlossaryKinds
    /\ parsed_docs = <<>>
    /\ cfg = NoCfg
    /\ sel = <<>>
    /\ pos = 0
    /\ loc = NoLoc
    /\ calls = Zero
    /\ attempts = Zero
    /\ flags = NoFlags
    /\ es_index = {}
    /\ es_meta = Absent
    /\ proj = NoProj
    /\ gsheet_data \in Sheets
    /\ other = NoOther
    /\ batches = <<>>
    /\ active_conversations = NoConversations
    /\ webhook = NoWebhook

NextParse ==
    \/ ParseStep
    \/ InsertInitial
    \/ Select
    \/ CheckContent
    \/ GenTechnical
    \/ GenNonTechnical
    \/ Finish
    \/ IndexEnriched
    \/ Propagate

SpecParse == InitParse /\ [][NextParse]_vars

\* ------------------------------------------------- store error in the upsert
\* The upsert pass when a statement of row k raises sqlite3.Error (a locked
\* or unwritable database file): the rows before it were written on the
\* connection, the handler rolls back (339-341) and the run goes on with
\* the selection
InsertInitialStoreError ==
    /\ pc = "upsert"
    /\ \E ids \in SUBSET DocIds, k \in DOMAIN parsed_docs :
         \E r \in {UpsertRows(store, SubSeq(parsed_docs, 1, k - 1), ids, runs, 0)} :
            /\ r.exc = "none"
            /\ cfg' = [NoCfg EXCEPT !.specific_ids = ids]
            /\ store' = InsertInitialDocuments(store,
                            [r EXCEPT !.exc = "sqlite3.Error"])
    /\ pc' = "select"
    /\ flags' = NoFlags
    /\ parsed_docs' = <<>>
    /\ UNCHANGED <<runs, glossary, sel, pos, loc, calls, attempts, es_index,
                   es_meta, proj, gsheet_data,
                   other, batches, active_conversations, webhook>>

NextUpsert ==
    \/ Next
    \/ InsertInitialStoreError

\* the last driver run over any table earlier runs can leave behind: the
\* upsert pass finds pending, error and enriched records
InitUpsert ==
    /\ store \in ProjStores
    /\ pc = "idle"
    /\ runs = MaxRuns - 1
    /\ glossary = "tsv"
    /\ parsed_docs = <<>>
    /\ cfg = NoCfg
    /\ sel = <<>>
    /\ pos = 0
    /\ loc = NoLoc
    /\ calls = Zero
    /\ attempts = Zero
    /\ flags = NoFlags
    /\ es_index = {}
    /\ es_meta = Absent
    /\ proj = NoProj
    /\ gsheet_data = NoSheet
    /\ other = NoOther
    /\ batches = <<>>
    /\ active_conversations = NoConversations
    /\ webhook = NoWebhook

SpecUpsert == InitUpsert /\ [][NextUpsert]_vars

\* ----------------------------------------------------- two driver processes
\* Each process runs run_enrichment_pipeline with its own locals and its own
\* connection (_get_db_connection); the store and the index are shared.
\* The processor goes from one process to the other between two committed
\* steps.
Switch ==
    /\ other' = [pc |-> pc, parsed_docs |-> parsed_docs, cfg |-> cfg,
                 sel |-> sel, pos |-> pos, loc |-> loc, calls |-> calls,
                 attempts |-> attempts, flags |-> flags]
    /\ pc' = other.pc
    /\ parsed_docs' = other.parsed_docs
    /\ cfg' = other.cfg
    /\ sel' = other.sel
    /\ pos' = other.pos
    /\ loc' = other.loc
    /\ calls' = other.calls
    /\ attempts' = other.attempts
    /\ flags' = other.flags
    /\ UNCHANGED <<store, runs, glossary, es_index, es_meta, proj, gsheet_data,
                   batches, active_conversations, webhook>>

\* the tables two runs can find after their upserts: pending records, with
\* or without content
RaceRows(d) ==
    {ProjRow(d, pending, "dano moral"), ProjRow(d, pending, Null)}

RaceStores ==
    {<<r>> : r \in RaceRows("D1")}
    \cup {<<ProjRow("D1", pending, "dano moral"), ProjRow("D2", pending, Null)>>}

\* both processes have committed their upsert pass and are about to run
\* the selection query
InitRace ==
    /\ store \in RaceStores
    /\ pc = "select"
    /\ runs = 2
    /\ glossary \in GlossaryKinds
    /\ parsed_docs = <<>>
    /\ cfg = NoCfg
    /\ sel = <<>>
    /\ pos = 0
    /\ loc = NoLoc
    /\ calls = Zero
    /\ attempts = Zero
    /\ flags = NoFlags
    /\ es_index = {}
    /\ es_meta = Absent
    /\ proj = NoProj
    /\ gsheet_data = NoSheet
    /\ other = [NoOther EXCEPT !.pc = "select"]
    /\ batches = <<>>
    /\ active_conversations = NoConversations
    /\ webhook = NoWebhook

NextRace ==
    \/ Select
    \/ CheckContent
    \/ GenTechnical
    \/ GenNonTechnical
    \/ Finish
    \/ IndexEnriched
    \/ Switch

SpecRace == InitRace /\ [][NextRace]_vars

\* ------------------------------------------------------------ batch loop
\* The loop of run_enrichment_pipeline over the selection (610-623), for
\* every value settings.BATCH_SIZE_LLM_ENRICHMENT can hold: config.py 67
\* takes it from the environment with int(...) and no check of its sign.
MaxSel == 3                            \* ids in one selection
SelIds == {"D1", "D2", "D3"}           \* document_id is the primary key: the
                                       \* ids of one selection are distinct
AllBatchSizes == {-1, 0, 1, 2, 3}

Selections ==
    {s \in UNION {[1..n -> SelIds] : n \in 0..MaxSel} :
        \A i, j \in DOMAIN s : i # j => s[i] # s[j]}

\* range(0, stop, step) for stop >= 0: a zero step raises ValueError, a
\* negative step yields nothing, a positive one yields 0, step, 2*step, ...
\* below stop
PyRange(stop, step) ==
    [exc |-> IF step = 0 THEN "ValueError" ELSE "none",
     items |-> IF step > 0
               THEN [k \in 1..((stop + step - 1) \div step) |-> (k - 1) * step]
               ELSE <<>>]

\* lst[i:j] for 0 <= i <= j
PySlice(lst, i, j) ==
    SubSeq(lst, i + 1, IF j < Len(lst) THEN j ELSE Len(lst))

\* one evaluation of the loop head (617) and the body that follows it
\* (618-623): the next batch_ids is cut and handed to enrich_batch; an empty
\* selection skips the loop (610-612); the loop ends when the range is
\* exhausted, or with the ValueError of range
BatchLoop ==
    /\ pc = "batches"
    /\ LET r == PyRange(Len(sel), cfg.batch_size)
           k == Len(batches)
       IN IF sel = <<>>
          THEN pc' = "index" /\ batches' = batches
          ELSE IF r.exc # "none"
          THEN pc' = "raised" /\ batches' = batches
          ELSE IF k < Len(r.items)
          THEN /\ batches' = Append(batches,
                                    PySlice(sel, r.items[k + 1],
                                            r.items[k + 1] + cfg.batch_size))
               /\ pc' = "batches"
          ELSE pc' = "index" /\ batches' = batches
    /\ UNCHANGED <<store, runs, glossary, parsed_docs, cfg, sel, pos, loc,
                   calls, attempts, flags, es_index, es_meta, proj,
                   gsheet_data, other, active_conversations, webhook>>

\* the end of the run: the batches made are forgotten with the other locals
BatchReturn ==
    /\ pc \in {"index", "raised"}
    /\ pc' = "idle"
    /\ batches' = <<>>
    /\ Return
    /\ UNCHANGED <<store, runs, glossary, es_index, es_meta, proj,
                   gsheet_data, other, active_conversations, webhook>>

InitBatch ==
    /\ store = <<>>
    /\ pc = "batches"
    /\ runs = 1
    /\ glossary = "tsv"
    /\ parsed_docs = <<>>
    /\ \E bs \in AllBatchSizes : cfg = [NoCfg EXCEPT !.batch_size = bs]
    /\ sel \in Selections
    /\ pos = 0
    /\ loc = NoLoc
    /\ calls = Zero
    /\ attempts = Zero
    /\ flags = NoFlags
    /\ es_index = {}
    /\ es_meta = Absent
    /\ proj = NoProj
    /\ gsheet_data = NoSheet
    /\ other = NoOther
    /\ batches = <<>>
    /\ active_conversations = NoConversations
    /\ webhook = NoWebhook

NextBatch ==
    \/ BatchLoop
    \/ BatchReturn

SpecBatch == InitBatch /\ [][NextBatch]_vars


\* ------------------------------------------------------------- chat agent
\* whatsapp_webhook_api.py: one AdvogadaParceiraAgent per conversation, kept
\* in active_conversations, driven by the calls of handle_whatsapp_message.
\* A message is named here by its text; Chars gives its characters (a~
\* stands for the letter a with a tilde).
ActivationPhrase ==
    <<"a", "d", "v", "o", "g", "a", "d", "a", " ", "p", "a", "r", "c", "e", "i", "r", "a">>

Messages ==
    {"advogada parceira", " Advogada Parceira ", "SIM", "1", "2", "na~o", "nao", ""}

Chars(m) ==
    CASE m = "advogada parceira" -> ActivationPhrase
      [] m = " Advogada Parceira " ->
            <<" ", "A", "d", "v", "o", "g", "a", "d", "a", " ", "P", "a", "r", "c", "e", "i", "r", "a", " ">>
      [] m = "SIM" -> <<"S", "I", "M">>
      [] m = "1" -> <<"1">>
      [] m = "2" -> <<"2">>
      [] m = "na~o" -> <<"n", "a~", "o">>
      [] m = "nao" -> <<"n", "a", "o">>
      [] OTHER -> <<>>

\* str.lower(), on the letters the messages hold
LowerChar(c) ==
    CASE c = "A" -> "a"
      [] c = "I" -> "i"
      [] c = "M" -> "m"
      [] c = "P" -> "p"
      [] c = "S" -> "s"
      [] OTHER -> c

Lower(s) == [k \in DOMAIN s |-> LowerChar(s[k])]

\* str.strip(): the blanks at both ends go
RECURSIVE LStrip(_)
LStrip(s) == IF s # <<>> /\ Head(s) = " " THEN LStrip(Tail(s)) ELSE s

RECURSIVE RStrip(_)
RStrip(s) ==
    IF s # <<>> /\ s[Len(s)] = " " THEN RStrip(SubSeq(s, 1, Len(s) - 1)) ELSE s

StripChars(s) == RStrip(LStrip(s))

\* message_text_original.strip().lower()
Normalized(m) == Lower(StripChars(Chars(m)))

\* `sub in s` for a non-empty sub
Contains(s, sub) ==
    \E i \in 1..(Len(s) - Len(sub) + 1) : SubSeq(s, i, i + Len(sub) - 1) = sub

\* "advogada parceira" in message_text_normalized (40, 184)
HasActivation(m) == Contains(Normalized(m), ActivationPhrase)

\* message_text_normalized == "1" or "sim" in message_text_normalized
IsYes(m) == Normalized(m) = <<"1">> \/ Contains(Normalized(m), <<"s", "i", "m">>)

\* message_text_normalized == "2" or "não" in message_text_normalized
IsNo(m) == Normalized(m) = <<"2">> \/ Contains(Normalized(m), <<"n", "a~", "o">>)

NoQueryText == "N/A (query anterior nao registrada)"

\* AdvogadaParceiraAgent.__init__ (21-26)
NewAgent ==
    [state |-> "waiting_activation", user_query_for_search |-> Null,
     last_doc_id_sent |-> Null]

\* AdvogadaParceiraAgent.reset (28-32)
Reset(agent) ==
    [agent EXCEPT !.state = "waiting_activation",
                  !.user_query_for_search = Null, !.last_doc_id_sent = Null]

\* the dict handle_message returns, with None for the keys it does not set;
\* type "none" stands for the return value None
NoAction ==
    [type |-> "none", query |-> Null, feedback |-> Null, doc_id |-> Null,
     original_query |-> Null]

TextAction == [NoAction EXCEPT !.type = "text"]

\* `x or default`
Or(x, default) == IF x \in {Null, ""} THEN default ELSE x

\* faulty variant: the stored values are read after the reset
FeedbackAfterReset(agent, feedback) ==
    [NoAction EXCEPT !.type = "text_and_log_feedback", !.feedback = feedback,
                     !.doc_id = Reset(agent).last_doc_id_sent,
                     !.original_query = Reset(agent).user_query_for_search]

\* the two branches that return text_and_log_feedback (62-69, 91-99): the
\* stored values are read before the reset
FeedbackAction(agent, feedback) ==
    [NoAction EXCEPT !.type = "text_and_log_feedback", !.feedback = feedback,
                     !.doc_id = agent.last_doc_id_sent,
                     !.original_query = agent.user_query_for_search]

\* AdvogadaParceiraAgent.handle_message (34-108): the agent after the call
\* and the action returned
HandleMessage(agent, m) ==
    CASE agent.state = "waiting_activation" ->
            IF HasActivation(m)
            THEN [agent |-> [agent EXCEPT !.state = "awaiting_request"],
                  action |-> TextAction]
            ELSE [agent |-> agent, action |-> NoAction]
      [] agent.state = "awaiting_request" ->
            [agent |-> [agent EXCEPT !.user_query_for_search = m,
                                     !.state = "performing_search"],
             action |-> [NoAction EXCEPT !.type = "search", !.query = m]]
      [] agent.state = "awaiting_approval" ->
            IF IsYes(m)
            THEN [agent |-> Reset(agent),
                  action |-> FeedbackAction(agent, "positive")]
            ELSE IF IsNo(m)
            THEN [agent |-> [agent EXCEPT !.state = "offer_alternative"],
                  action |-> TextAction]
            ELSE [agent |-> agent, action |-> TextAction]
      [] agent.state = "offer_alternative" ->
            IF IsYes(m)
            THEN [agent |-> [agent EXCEPT !.state = "performing_search"],
                  action |-> [NoAction EXCEPT
                                !.type = "search",
                                !.query = Or(agent.user_query_for_search,
                                             NoQueryText)]]
            ELSE IF IsNo(m)
            THEN [agent |-> Reset(agent),
                  action |-> FeedbackAction(agent, "negative_declined_alternative")]
            ELSE [agent |-> agent, action |-> TextAction]
      [] OTHER -> [agent |-> agent, action |-> NoAction]

\* faulty variant: the activation phrase does not reset the agent
KeepOnActivation(agent, m) == agent

\* lines 184-187 of handle_whatsapp_message
ResetOnActivation(agent, m) == IF HasActivation(m) THEN Reset(agent) ELSE agent

\* what search_and_rerank_documents can come back with: None, a dict with
\* the text and the id of the chosen document (either can be missing), a
\* dict with an error, or an exception (rerank_and_summarize slices the
\* contextual_summary of the reply at llm_service.py 270, which raises
\* TypeError for a JSON null; search_orchestrator.py has no handler around
\* the call)
SearchResult(none, text, id, err, raises) ==
    [none |-> none, full_text_content |-> text, chosen_document_id |-> id,
     error |-> err, raises |-> raises]

NoSearch == SearchResult(TRUE, Null, Null, Null, FALSE)

SearchResults ==
    {NoSearch,
     SearchResult(FALSE, Null, Null, Null, TRUE),
     SearchResult(FALSE, Null, Null, "erro", FALSE),
     SearchResult(FALSE, Null, "D1", Null, FALSE)}
    \cup {SearchResult(FALSE, "texto", d, Null, FALSE) : d \in DocIds}

\* the branch of a search action (203-226); exc tells that the search
\* raised, which leaves handle_whatsapp_message at line 209
SearchBranch(agent, action, orch, res) ==
    IF ~orch THEN [agent |-> Reset(agent), exc |-> FALSE, part1 |-> "indisponivel",
                   part2 |-> Null]
    ELSE IF res.raises THEN [agent |-> agent, exc |-> TRUE, part1 |-> Null,
                             part2 |-> Null]
    ELSE IF /\ ~res.none
            /\ res.full_text_content \notin {Null, ""}
            /\ res.chosen_document_id \notin {Null, ""}
    THEN [agent |-> [agent EXCEPT !.last_doc_id_sent = res.chosen_document_id,
                                  !.user_query_for_search = action.query,
                                  !.state = "awaiting_approval"],
          exc |-> FALSE, part1 |-> res.full_text_content, part2 |-> "atende?"]
    ELSE IF ~res.none /\ res.error \notin {Null, ""}
    THEN [agent |-> Reset(agent), exc |-> FALSE, part1 |-> "erro na busca",
          part2 |-> Null]
    ELSE [agent |-> [agent EXCEPT !.state = "awaiting_request"], exc |-> FALSE,
          part1 |-> "nao encontrei", part2 |-> Null]

\* the fields of the request body; None for a missing one.  The calls are
\* those of one sender in one group: a call reads and writes the agent of
\* its own conversation_key only
GroupIds == {Null, "grp@g.us"}
SenderIds == {Null, "u1"}

\* group_id.endswith('@g.us')
EndsWithGUs(g) == g = "grp@g.us"

\* conversation_key (177-180): group and sender for a group chat, the
\* sender alone otherwise
ConversationKey(g, sid) == IF EndsWithGUs(g) THEN <<g, sid>> ELSE <<sid>>

\* get_or_create_agent_instance (123-128)
GetOrCreateAgent(convs, key) ==
    IF key \in DOMAIN convs THEN convs[key] ELSE NewAgent

\* log_payload (234-244), the fields taken from the action
NoLog == [sent_document_id |-> Null, original_user_query |-> Null,
          feedback_sentiment |-> Null, user_feedback_raw |-> Null]

LogPayload(action, m) ==
    [sent_document_id |-> action.doc_id,
     original_user_query |-> action.original_query,
     feedback_sentiment |-> action.feedback,
     user_feedback_raw |-> m]

\* what one call of handle_whatsapp_message did: its HTTP status (500 for
\* an exception that left it), the conversation and the message, the agent
\* as the call found it, the action handle_message returned, the payload
\* sent to the interaction log and the texts handed to the send service
CallRecord(status, key, m, before, action, log, texts) ==
    [status |-> status, conversation_key |-> key, message |-> m,
     before |-> before, agent_action |-> action, log_payload |-> log,
     texts |-> texts]

\* text_to_send_part1 and text_to_send_part2, each sent when truthy (247-252)
Texts(part1, part2) ==
    (IF part1 \in {Null, ""} THEN <<>> ELSE <<part1>>)
    \o (IF part2 \in {Null, ""} THEN <<>> ELSE <<part2>>)

\* handle_whatsapp_message (160-254), the whole call
HandleWhatsappMessage ==
    /\ pc = "chat"
    /\ \E g \in GroupIds, sid \in SenderIds, m \in Messages \cup {Null} :
         IF g = Null \/ sid = Null \/ m = Null
         THEN /\ webhook' = CallRecord(400, <<>>, Null, NewAgent, NoAction, NoLog, <<>>)
              /\ active_conversations' = active_conversations
         ELSE
           LET key == ConversationKey(g, sid)
               before == GetOrCreateAgent(active_conversations, key)
               h == HandleMessage(ResetOnActivation(before, m), m)
           IN \E orch \in (IF h.action.type = "search" THEN BOOLEAN ELSE {TRUE}),
                 res \in (IF h.action.type = "search" THEN SearchResults
                          ELSE {NoSearch}) :
                LET b == IF h.action.type = "search"
                         THEN SearchBranch(h.agent, h.action, orch, res)
                         ELSE [agent |-> h.agent, exc |-> FALSE,
                               part1 |-> IF h.action.type = "none" THEN Null
                                         ELSE "content",
                               part2 |-> Null]
                    log == IF h.action.type = "text_and_log_feedback"
                           THEN LogPayload(h.action, m) ELSE NoLog
                IN /\ active_conversations' =
                         (key :> b.agent) @@ active_conversations
                   /\ webhook' = CallRecord(IF b.exc THEN 500 ELSE 200, key, m,
                                            before, h.action, log,
                                            Texts(b.part1, b.part2))
    /\ UNCHANGED <<store, pc, runs, glossary, parsed_docs, cfg, sel, pos, loc,
                   calls, attempts, flags, es_index, es_meta, proj,
                   gsheet_data, other, batches>>

InitChat ==
    /\ store = <<>>
    /\ pc = "chat"
    /\ runs = 0
    /\ glossary = "tsv"
    /\ parsed_docs = <<>>
    /\ cfg = NoCfg
    /\ sel = <<>>
    /\ pos = 0
    /\ loc = NoLoc
    /\ calls = Zero
    /\ attempts = Zero
    /\ flags = NoFlags
    /\ es_index = {}
    /\ es_meta = Absent
    /\ proj = NoProj
    /\ gsheet_data = NoSheet
    /\ other = NoOther
    /\ batches = <<>>
    /\ active_conversations = NoConversations
    /\ webhook = NoWebhook

NextChat == HandleWhatsappMessage

SpecChat == InitChat /\ [][NextChat]_vars

\* ================================================================ claims
EnrichPcs == {"check", "gen1", "gen2", "finish"}

\* the step is the catalog upsert of a run
UpsertStep == pc = "upsert" /\ pc' \in {"select", "raised"}

InCatalog(docs, d) == \E k \in DOMAIN docs : docs[k].document_id = d

\* the last catalog row of an id is the one whose values the pass leaves
LastRowOf(docs, d) ==
    docs[CHOOSE k \in DOMAIN docs :
            /\ docs[k].document_id = d
            /\ \A m \in DOMAIN docs : docs[m].document_id = d => m <= k]

\* the driver has left the record: its iteration of enrich_batch is over
Done(d) ==
    /\ attempts[d] > 0
    /\ ~(pc \in {"gen1", "gen2", "finish"} /\ sel[pos] = d)

StatusEdges ==
    {<<pending, processing_llm>>, <<error_enrichment, processing_llm>>,
     <<processing_llm, enriched>>, <<processing_llm, error_enrichment>>}

\* the step condition of C1_OnlyEdges
C1_OnlyEdges_Step ==
    pc \in EnrichPcs =>
       \A i \in DOMAIN store :
          \/ store'[i].status_enrichment = store[i].status_enrichment
          \/ <<store[i].status_enrichment, store'[i].status_enrichment>>
                \in StatusEdges

C1_EdgesWithMissingContent_Step ==
    pc \in EnrichPcs =>
       \A i \in DOMAIN store :
          \/ store'[i].status_enrichment = store[i].status_enrichment
          \/ <<store[i].status_enrichment, store'[i].status_enrichment>>
                \in StatusEdges
          \/ /\ store[i].status_enrichment = pending
             /\ store'[i].status_enrichment = error_enrichment
             /\ store[i].full_text_content \in {Null, ""}

C2_EnrichedHasSummaries ==
    \A i \in DOMAIN store :
       store[i].status_enrichment = enriched =>
          /\ store[i].summary1_llm # Null
          /\ store[i].summary2_llm # Null

\* C3: every enriched record has a non-null, non-empty full_text_content.
C3_EnrichedHasContent ==
    \A i \in DOMAIN store :
       store[i].status_enrichment = enriched =>
          store[i].full_text_content \notin {Null, ""}

\* a record enriched in this run while another record of the table has no
\* content
C3_Witness ==
    \E i, j \in DOMAIN store :
       /\ store[i].status_enrichment = enriched
       /\ attempts[store[i].document_id] = 1
       /\ store[j].full_text_content \in {Null, ""}
       /\ attempts[store[j].document_id] = 1

\* C4: a record that this run moved to error because its content is null
\* or empty has received no generation call in this run.
C4_NoCallOnMissingContent ==
    \A i \in DOMAIN store :
       ( /\ attempts[store[i].document_id] > 0
         /\ store[i].status_enrichment = error_enrichment
         /\ store[i].full_text_content \in {Null, ""} )
       => calls[store[i].document_id] = 0

\* a record errored for missing content in a run that did call the
\* generation service for another record
C4_Witness ==
    \E i, j \in DOMAIN store :
       /\ attempts[store[i].document_id] = 1
       /\ store[i].status_enrichment = error_enrichment
       /\ store[i].full_text_content \in {Null, ""}
       /\ calls[store[j].document_id] = 2

\* C5: when one of the two generation calls of a record fails, no further
\* call is made for it and the record ends in error with a message.
C5_FailedCallEndsInError ==
    \A i \in DOMAIN store :
       LET d == store[i].document_id
       IN (flags.first_failed[d] # 0 /\ Done(d)) =>
             /\ calls[d] = flags.first_failed[d]
             /\ store[i].status_enrichment = error_enrichment
             /\ store[i].llm_error_message # Null

C7_SkipIsNoOp_Step ==
    UpsertStep =>
       \A i \in DOMAIN store :
          ( /\ InCatalog(parsed_docs, store[i].document_id)
            /\ store[i].status_enrichment \in {enriched, processing_llm}
            /\ store[i].document_id \notin cfg'.specific_ids )
          => store'[i] = store[i]

\* C7: the upsert leaves a record untouched when its id is in the catalog,
\* its status is enriched or processing and the id is not forced.
C7_SkipIsNoOp == [][C7_SkipIsNoOp_Step]_vars

\* after an upsert that skipped a catalog row and committed a change to
\* another record: an enriched or processing record, not forced
C7_Witness ==
    /\ pc = "select"
    /\ flags.skipped > 0
    /\ \E i, j \in DOMAIN store :
          /\ store[i].status_enrichment \in {enriched, processing_llm}
          /\ store[i].document_id \notin cfg.specific_ids
          /\ store[i].updated_at < runs
          /\ store[j].updated_at = runs

\* the step condition of C8_ForcedReset
C8_ForcedReset_Step ==
    UpsertStep =>
       \A i \in DOMAIN store :
          ( /\ InCatalog(parsed_docs, store[i].document_id)
            /\ store[i].document_id \in cfg'.specific_ids )
          => /\ store'[i].status_enrichment = pending
             /\ store'[i].llm_error_message = Null

\* C8: an upsert with a forced id that is in the catalog leaves that record
\* pending with a null error message, whatever its status was.
C8_ForcedReset == [][C8_ForcedReset_Step]_vars

\* the step condition of C9_PendingOrErrorReset
C9_PendingOrErrorReset_Step ==
    UpsertStep =>
       \A i \in DOMAIN store :
          ( /\ InCatalog(parsed_docs, store[i].document_id)
            /\ store[i].document_id \notin cfg'.specific_ids
            /\ store[i].status_enrichment \in {pending, error_enrichment} )
          => /\ pc' = "select"
             /\ store'[i].status_enrichment = pending
             /\ store'[i].llm_error_message = Null
             /\ store'[i].full_text_content =
                   LastRowOf(parsed_docs, store[i].document_id).full_text_content
             /\ store'[i].document_title_original =
                   LastRowOf(parsed_docs, store[i].document_id).document_title

\* C9: an upsert of an existing, not forced record in pending or error
\* overwrites its catalog fields, leaves it pending with a null error
\* message, and the pass completes.
C9_PendingOrErrorReset == [][C9_PendingOrErrorReset_Step]_vars

\* the step condition of C10_MergeKey
C10_MergeKey_Step ==
    /\ \A d \in DocIds : Cardinality(IdxOf(store', d)) <= 1
    /\ UpsertStep =>
          \A e \in DocIds :
             InCatalog(parsed_docs, e) =>
                /\ Cardinality(IdxOf(store', e)) = 1
                /\ ~HasRow(store, e) =>
                      FetchOne(store', e).status_enrichment = pending

\* C10: at most one record per document_id; an upsert creates exactly one
\* pending record for every catalog id it had not seen, and never a second
\* record for an id it had.
C10_MergeKey == [][C10_MergeKey_Step]_vars

\* --------------------------------------------------------- projection
\* C11: after a run of main_sqlite_to_es that reached its end and counted
\* no rejection, every enriched record of the store is in the index as
\* exactly one document whose id is the record's document_id.
C11_EnrichedAreIndexed ==
    (pc = "idle" /\ proj.outcome = "done" /\ proj.total_docs_with_errors = 0)
    => \A i \in DOMAIN store :
          store[i].status_enrichment = enriched
          => Cardinality({e \in es_index : e.id = store[i].document_id}) = 1

\* C12: after a second completed run over the same enriched record the
\* index holds exactly one document of its document_id, and that document
\* carries the record's current summaries and terms.
C12_ProjectionIdempotent ==
    (pc = "idle" /\ proj.outcome = "done" /\ proj.completed >= 1
       /\ proj.total_docs_with_errors = 0)
    => \A i \in DOMAIN store :
          store[i].status_enrichment = enriched
          => /\ Cardinality({e \in es_index : e.id = store[i].document_id}) = 1
             /\ \A e \in es_index :
                   e.id = store[i].document_id
                   => /\ e.source.summary1_llm = store[i].summary1_llm
                      /\ e.source.summary2_llm = store[i].summary2_llm
                      /\ e.source.document_specific_terms =
                            DecodeJsonField(store[i].document_specific_terms)

\* how often a document_id was read by the pages of the run
TimesRead(d) == Cardinality({k \in DOMAIN proj.read : proj.read[k] = d})

\* C13: the pages of a run are a full resync: no record is read twice, no
\* record that is not enriched is read, the ids come in ascending order, a
\* page is never longer than a positive page size, and at the end of the
\* run every enriched record has been read exactly once, whatever earlier
\* runs did.
C13_FullResync ==
    /\ \A i \in DOMAIN store :
          TimesRead(store[i].document_id)
             <= IF store[i].status_enrichment = enriched THEN 1 ELSE 0
    /\ \A j, k \in DOMAIN proj.read :
          j < k => IdRank(proj.read[j]) < IdRank(proj.read[k])
    /\ proj.batch_size_es > 0 => Len(proj.page) <= proj.batch_size_es
    /\ (pc = "idle" /\ proj.outcome = "done")
       => \A i \in DOMAIN store :
             store[i].status_enrichment = enriched
             => TimesRead(store[i].document_id) = 1

\* a second run read two enriched records, stored in descending id order,
\* in pages of one
C13_Witness ==
    /\ pc = "idle"
    /\ proj.outcome = "done"
    /\ proj.completed = 1
    /\ proj.batch_size_es = 1
    /\ proj.fetches = 3
    /\ Len(store) = 2
    /\ store[1].document_id = "D2"
    /\ proj.read = <<"D1", "D2">>

\* the rule of the specification for a stored value: a valid JSON array
\* as it is, a string that is not JSON as a one-element list, null and the
\* empty string as the empty list (nothing is said of other JSON values)
RefCovers(v) == v \in {Null, ""} \/ ~JsonLoads(v).ok \/ JsonLoads(v).type = "list"

RefDecode(v) ==
    IF v \in {Null, ""} THEN <<>>
    ELSE IF JsonLoads(v).ok THEN JsonLoads(v).val
    ELSE <<v>>

\* C14: the list field of every document of a page is the stored value
\* decoded by the rule, and no decode of the stored value raises.
C14_DecodeRule ==
    \A k \in DOMAIN proj.page : \A i \in DOMAIN store :
       store[i].document_id = proj.page[k].document_id
       => LET v == store[i].document_specific_terms
          IN /\ RefCovers(v)
                => proj.page[k].document_specific_terms = RefDecode(v)
             /\ EnricherDecode(v) # Raise

\* the step condition of C15_RejectionsDoNotAbort
C15_RejectionsDoNotAbort_Step ==
    pc = "p_bulk" =>
       /\ pc' = "p_fetch"
       /\ proj'.offset = proj.offset + Len(proj.page)
       /\ \A k \in DOMAIN proj.page :
             \/ \E e \in es_index' : e.id = proj.page[k].document_id
             \/ proj'.total_docs_with_errors > proj.total_docs_with_errors

C16_EnsureIndex_Step ==
    /\ (pc \in {"p_ensure", "p_fetch", "p_bulk"} /\ ~proj.recreate
          /\ es_meta # Absent)
       => /\ es_meta' = es_meta
          /\ es_index \subseteq es_index'
          /\ pc = "p_ensure" => es_index' = es_index
    /\ (pc = "p_ensure" /\ pc' = "p_fetch" /\ proj.recreate)
       => /\ es_index' = {}
          /\ es_meta' = proj.dims

\* C16: without the recreate flag a run never deletes the index and the
\* ensure step leaves the documents and the schema of an existing index as
\* they are; with the flag, the run projects into an index created by this
\* run: no document and the schema of this run.
C16_EnsureIndex == [][C16_EnsureIndex_Step]_vars

\* C17: a run that could not reach the index service or could not ensure
\* the index has read no record from the store and has handed no document
\* to the index, and it is over.
C17_AbortReadsNothing ==
    proj.outcome \in {"no_service", "no_index"}
    => /\ pc = "idle"
       /\ proj.fetches = 0
       /\ proj.read = <<>>
       /\ proj.sent = {}
       /\ proj.page = <<>>

\* a run over a store with an enriched record ended by the failure to
\* create the index
C17_Witness ==
    /\ proj.outcome = "no_index"
    /\ es_meta = Absent
    /\ \E i \in DOMAIN store : store[i].status_enrichment = enriched

\* the step condition of C18_ProcessingBeforeCall
C18_ProcessingBeforeCall_Step ==
    /\ \A d \in DocIds :
          calls'[d] > calls[d]
          => /\ HasRow(store, d)
             /\ FetchOne(store, d).status_enrichment = processing_llm
    /\ pc \in {"gen1", "gen2", "finish"}
       => FetchOne(store, sel[pos]).status_enrichment = processing_llm

\* C18: a generation call for a record is issued only from a state whose
\* committed store has the record in status processing; and between the
\* processing mark and the completion of the record the committed store,
\* which is what a crash leaves behind, has the record in status
\* processing.
C18_ProcessingBeforeCall == [][C18_ProcessingBeforeCall_Step]_vars

\* both generation calls of a record have been made and its final write is
\* still to come
C18_Witness ==
    /\ pc = "finish"
    /\ calls[sel[pos]] = 2
    /\ FetchOne(store, sel[pos]).status_enrichment = processing_llm

\* the derived fields, the status and the error message of a row
Derived(row) ==
    <<row.summary1_llm, row.summary2_llm, row.document_specific_terms,
      row.status_enrichment, row.llm_error_message>>

\* the step condition of C19_AtomicCompletion
C19_AtomicCompletion_Step ==
    /\ \A i \in DOMAIN store :
          store[i].status_enrichment = enriched
          => store[i].llm_error_message = Null
    /\ \A i \in DOMAIN store :
          ( /\ store'[i].status_enrichment = enriched
            /\ Derived(store'[i]) # Derived(store[i]) )
          => /\ pc = "finish"
             /\ store[i].document_id = sel[pos]
             /\ Derived(store'[i]) =
                   <<loc.summary1_llm, loc.summary2_llm,
                     JsonDumps(FindTermsInText(glossary, loc.full_text)),
                     enriched, Null>>

\* C19: no committed state has an enriched record with an error message,
\* and whenever a step leaves a record enriched with a derived field, the
\* status or the error message changed, that step is the final write of
\* this record's enrichment and it has written both summaries, the terms,
\* the status and the null error message of this enrichment together.
C19_AtomicCompletion == [][C19_AtomicCompletion_Step]_vars

\* a record has been enriched in this run by two generation calls that
\* both returned text
C19_Witness ==
    \E i \in DOMAIN store :
       /\ store[i].status_enrichment = enriched
       /\ attempts[store[i].document_id] = 1
       /\ calls[store[i].document_id] = 2
       /\ store[i].summary1_llm # Null
       /\ store[i].summary2_llm # Null

\* the step condition of C20_FullOverwrite
C20_FullOverwrite_Step ==
    (pc = "finish" /\ FindTermsInText(glossary, loc.full_text) # Raise)
    => LET new == FetchOne(store', sel[pos])
       IN /\ new.status_enrichment = enriched
          /\ new.summary1_llm = loc.summary1_llm
          /\ new.summary2_llm = loc.summary2_llm
          /\ new.document_specific_terms =
                JsonDumps(FindTermsInText(glossary, loc.full_text))

\* C20: the final write of an enrichment leaves the record with exactly
\* the two summaries and the terms this enrichment produced, whatever the
\* record held before.
C20_FullOverwrite == [][C20_FullOverwrite_Step]_vars

\* a record that already held a summary has been enriched again in this
\* run and now holds a different one
ReEnriched(d) ==
    /\ pc = "finish"
    /\ sel[pos] = d
    /\ FetchOne(store, d).summary1_llm # Null
    /\ FetchOne(store, d).summary1_llm # loc.summary1_llm

C20_Witness ==
    \E d \in DocIds : HasRow(store, d) /\ ReEnriched(d)

\* C21: a record whose status is not enriched has null summaries and null
\* terms.
C21_DerivedOnlyWhileEnriched ==
    \A i \in DOMAIN store :
       store[i].status_enrichment # enriched
       => /\ store[i].summary1_llm = Null
          /\ store[i].summary2_llm = Null
          /\ store[i].document_specific_terms = Null

\* the ids the selection of a run is stated to be: pending, error as well
\* exactly with force-reprocess-errors, within the id subset if one is given
RefSelection(tbl, c) ==
    {tbl[i].document_id : i \in
        {j \in DOMAIN tbl :
            /\ tbl[j].status_enrichment \in
                  (IF c.force_reprocess_errors
                   THEN {pending, error_enrichment} ELSE {pending})
            /\ c.specific_ids = {} \/ tbl[j].document_id \in c.specific_ids}}

SeqRange(s) == {s[k] : k \in DOMAIN s}

\* an error record leaves error only by the forced reset of the upsert or
\* in the enrichment of a run with force-reprocess-errors
ErrorStays ==
    \A i \in DOMAIN store :
       (store[i].status_enrichment = error_enrichment
          /\ store'[i].status_enrichment # error_enrichment)
       => \/ pc = "upsert" /\ store[i].document_id \in cfg'.specific_ids
          \/ pc = "check" /\ cfg.force_reprocess_errors

\* the step condition of C22_SelectionExact
C22_SelectionExact_Step ==
    /\ pc = "select" => SeqRange(sel') = RefSelection(store, cfg')
    /\ ErrorStays

C22_SelectionUpToLimit_Step ==
    /\ pc = "select" =>
          LET ref == RefSelection(store, cfg')
              got == SeqRange(sel')
          IN /\ got \subseteq ref
             /\ Cardinality(got) = Len(sel')
             /\ \A j, k \in DOMAIN sel' :
                   j < k => FetchOne(store, sel'[j]).created_at
                               <= FetchOne(store, sel'[k]).created_at
             /\ cfg'.specific_ids # {} => got = ref
             /\ got # ref =>
                   /\ \E n \in Limits : n > 0 /\ Len(sel') = n
                   /\ \A d \in got, e \in ref \ got :
                         FetchOne(store, d).created_at
                            <= FetchOne(store, e).created_at
    /\ ErrorStays

C22_WitnessError ==
    /\ pc = "check"
    /\ pos = 1
    /\ ~cfg.force_reprocess_errors
    /\ \E i \in DOMAIN store :
          /\ store[i].status_enrichment = error_enrichment
          /\ store[i].document_id \notin SeqRange(sel)

\* C23: when the enrichment of a run is over, every record it selected
\* whose full_text_content is null is in status error with the message of
\* the missing content.
C23_NullContentEndsInError ==
    pc = "index" =>
       \A k \in DOMAIN sel :
          FetchOne(store, sel[k]).full_text_content = Null
          => /\ FetchOne(store, sel[k]).status_enrichment = error_enrichment
             /\ FetchOne(store, sel[k]).llm_error_message = MissingMsg

\* C27: when the enrichment of a run is over, every record it selected is
\* enriched or in error; none is left pending or processing.
C27_SelectedEndSettled ==
    pc = "index" =>
       \A k \in DOMAIN sel :
          FetchOne(store, sel[k]).status_enrichment
             \in {enriched, error_enrichment}

\* the sheet of the run has a row whose raw file is not there
HasMissingFile ==
    /\ gsheet_data.ok
    /\ \E k \in DOMAIN gsheet_data.rows :
          gsheet_data.rows[k].file_name = "ausente.txt"

\* the step condition of C24_MissingFileDoesNotAbort
C24_MissingFileDoesNotAbort_Step ==
    /\ (pc = "parse" /\ HasMissingFile)
       => /\ Len(parsed_docs') = Len(gsheet_data.rows)
          /\ \A k \in DOMAIN gsheet_data.rows :
                /\ parsed_docs'[k].document_id = gsheet_data.rows[k].document_id
                /\ gsheet_data.rows[k].file_name = "ausente.txt"
                   => parsed_docs'[k].full_text_content = Null
                /\ gsheet_data.rows[k].file_name = "peticao.txt"
                   => parsed_docs'[k].full_text_content = "dano moral"
    /\ (pc = "upsert" /\ HasMissingFile)
       => /\ pc' = "select"
          /\ \A k \in DOMAIN gsheet_data.rows :
                HasRow(store', gsheet_data.rows[k].document_id)

\* C24: of a sheet with a row whose raw file is missing every row is
\* parsed, that row with a null full_text_content, and the upsert of the
\* run goes through: every row of the sheet has its record in the store.
C24_MissingFileDoesNotAbort == [][C24_MissingFileDoesNotAbort_Step]_vars

\* C25: a run that could not read the catalog does not get to the
\* enrichment or to the projection, and issues no generation call.
C25_CatalogFailureIsFatal ==
    ~gsheet_data.ok
    => /\ pc \notin {"check", "gen1", "gen2", "finish", "index"}
       /\ calls = Zero

\* the step condition of C26_NoRetryInRun
C26_NoRetryInRun_Step ==
    /\ \A d \in DocIds : attempts'[d] <= 1 /\ calls'[d] <= 2
    /\ \A i \in DOMAIN store :
          LET d == store[i].document_id
          IN /\ (store[i].status_enrichment # processing_llm
                   /\ store'[i].status_enrichment = processing_llm)
                => attempts[d] = 0 /\ attempts'[d] = 1
             /\ (pc \in EnrichPcs /\ attempts[d] = 1
                   /\ store[i].status_enrichment = error_enrichment)
                => /\ store'[i] = store[i]
                   /\ attempts'[d] = 1
                   /\ calls'[d] = calls[d]
             /\ (store[i].status_enrichment = error_enrichment
                   /\ attempts'[d] > attempts[d])
                => cfg.force_reprocess_errors

\* C26: in one run a record is moved to processing at most once, in its
\* one attempt, and receives at most two generation calls; a record that
\* this run has attempted and that is in error is not touched again by the
\* enrichment of this run; and a record in error is attempted only in a
\* run with force-reprocess-errors.
C26_NoRetryInRun == [][C26_NoRetryInRun_Step]_vars

\* the run went on to its end after a record ended in error on a
\* generation call that raised, and another record was attempted after it
C26_Witness ==
    /\ pc = "index"
    /\ Len(sel) = 2
    /\ FetchOne(store, sel[1]).status_enrichment = error_enrichment
    /\ FetchOne(store, sel[1]).llm_error_message = LlmErrMsg
    /\ calls[sel[1]] >= 1
    /\ attempts[sel[1]] = 1
    /\ attempts[sel[2]] = 1

\* the step condition of C28_UnguardedClaim
C28_UnguardedClaim_Step ==
    (pc = "check" /\ other' = other /\ ~MissingContent(store, sel[pos]))
    => /\ FetchOne(store', sel[pos]).status_enrichment = processing_llm
       /\ pc' = "gen1"

\* C28: the write that claims a record does not look at the status the
\* record has by then: a process that selected a record with content marks
\* it processing and goes on to its generation calls also when another
\* process has claimed or completed the record in the meantime.
C28_UnguardedClaim == [][C28_UnguardedClaim_Step]_vars

\* both processes selected the same pending record, both marked it
\* processing and both have issued a generation call for it
C28_Witness ==
    \E d \in DocIds :
       /\ calls[d] >= 1
       /\ other.calls[d] >= 1
       /\ attempts[d] = 1
       /\ other.attempts[d] = 1
       /\ \E k \in DOMAIN sel : sel[k] = d
       /\ \E k \in DOMAIN other.sel : other.sel[k] = d

\* the step condition of C29_StagesInOrder
C29_StagesInOrder_Step ==
    /\ es_index' # {} => es_meta' # Absent
    /\ pc = "index" =>
          \A i \in DOMAIN store :
             (store[i].status_enrichment = enriched
                /\ attempts[store[i].document_id] = 1)
             => \E e \in es_index' : e.id = store[i].document_id

\* C29: the index holds documents only once its schema has been ensured,
\* and the projection step that ends a run leaves every record enriched in
\* that run in the index.
C29_StagesInOrder == [][C29_StagesInOrder_Step]_vars

IndexedIds(idx) == {e.id : e \in idx}

\* the step condition of C30_ProjectionKeepsDocuments
C30_ProjectionKeepsDocuments_Step ==
    (pc \in {"p_ensure", "p_fetch", "p_bulk"} /\ ~proj.recreate)
    => IndexedIds(es_index) \subseteq IndexedIds(es_index')

RECURSIVE Flatten(_)
Flatten(bb) == IF bb = <<>> THEN <<>> ELSE Head(bb) \o Flatten(Tail(bb))

\* C31: for every configured batch size the loop ends without an exception,
\* and when it has ended the batches partition the selection in its order:
\* their concatenation is the selection, and every batch but the last has
\* exactly batch-size ids.
C31_BatchesPartition ==
    /\ pc # "raised"
    /\ pc = "index" =>
          /\ Flatten(batches) = sel
          /\ \A k \in 1..(Len(batches) - 1) : Len(batches[k]) = cfg.batch_size
          /\ \A k \in DOMAIN batches : Len(batches[k]) \in 1..cfg.batch_size

\* C32: the pagination loop of the projector ends for every page size: a
\* page in hand is never empty and moves the offset up by its length, an
\* empty page ends the loop and the run, the offset never passes the number
\* of enriched rows, and a loop that has started comes to its end.
C32_PaginationStep ==
    /\ pc = "p_bulk" =>
          /\ proj.page # <<>>
          /\ pc' = "p_fetch"
          /\ proj'.offset = proj.offset + Len(proj.page)
          /\ proj'.offset > proj.offset
    /\ pc = "p_fetch" =>
          IF proj'.page = <<>>
          THEN pc' = "idle" /\ proj'.outcome = "done"
          ELSE pc' = "p_bulk"
    /\ proj'.offset <= Cardinality(EnrichedRows(store'))
    /\ proj'.fetches <= Cardinality(EnrichedRows(store')) + 1

C32_PaginationTerminates == [][C32_PaginationStep]_vars /\ ((pc = "p_fetch") ~> (pc = "idle"))

\* a run with a page size that is not positive read its rows in one page
\* and ended at the empty page that followed
C32_Witness ==
    /\ pc = "idle"
    /\ proj.outcome = "done"
    /\ proj.batch_size_es <= 0
    /\ proj.offset = 2
    /\ proj.fetches = 2

\* the run has the record d between its processing mark and its last write
UnderEnrichment(d) ==
    /\ pc \in {"gen1", "gen2", "finish"}
    /\ sel[pos] = d

\* C33: a record in processing that no run is working on is stuck: a
\* selection never lists it, and no step changes its row except the upsert
\* pass of a run that names its document_id in specific_ids, which makes it
\* pending.
C33_ProcessingStuck_Step ==
    \A i \in DOMAIN store :
       LET d == store[i].document_id
       IN (store[i].status_enrichment = processing_llm /\ ~UnderEnrichment(d)) =>
             /\ pc = "select" => \A k \in DOMAIN sel' : sel'[k] # d
             /\ \/ store'[i] = store[i]
                \/ /\ pc = "upsert"
                   /\ d \in cfg'.specific_ids
                   /\ store'[i].status_enrichment = pending

C33_ProcessingStuck == [][C33_ProcessingStuck_Step]_vars

\* the second run selected and went through another record while the record
\* the first run left in processing stayed as it was
C33_Witness ==
    /\ runs = 2
    /\ pc = "index"
    /\ sel # <<>>
    /\ \E i \in DOMAIN store :
          /\ store[i].status_enrichment = processing_llm
          /\ store[i].updated_at = 1
          /\ attempts[store[i].document_id] = 0

\* C34: in every committed state of the table a record in error carries an
\* error message, and a record in pending or in processing carries none.
C34_MessageFollowsStatus ==
    \A i \in DOMAIN store :
       /\ store[i].status_enrichment = error_enrichment =>
             store[i].llm_error_message # Null
       /\ store[i].status_enrichment \in {pending, processing_llm} =>
             store[i].llm_error_message = Null

\* a later run has a record of an earlier run under its processing mark,
\* next to a record it has just put in error
C34_Witness ==
    /\ runs = 2
    /\ \E i, j \in DOMAIN store :
          /\ store[i].status_enrichment = error_enrichment
          /\ store[i].updated_at = 2
          /\ store[i].llm_error_message # Null
          /\ store[j].status_enrichment = processing_llm
          /\ store[j].created_at = 1
          /\ store[j].llm_error_message = Null
          /\ attempts[store[j].document_id] = 1

\* the pass cannot come to its commit: the catalog lists a record in error
\* that is not a forced id (line 292)
HitsNameError(docs, tbl, ids) ==
    \E k \in DOMAIN docs :
       /\ HasRow(tbl, docs[k].document_id)
       /\ FetchOne(tbl, docs[k].document_id).status_enrichment = error_enrichment
       /\ docs[k].document_id \notin ids

\* C35: an upsert pass leaves the table as it found it, or it has handled
\* every row of the catalog: then no row of the catalog stopped it, every
\* id of the catalog is in the table, and every record of the catalog that
\* was not to be skipped is pending and carries the time of this pass.  A
\* pass that raised left the table as it was.
C35_UpsertAllOrNothing_Step ==
    pc = "upsert" =>
       /\ pc' = "raised" => store' = store
       /\ store' # store =>
             /\ ~HitsNameError(parsed_docs, store, cfg'.specific_ids)
             /\ \A k \in DOMAIN parsed_docs :
                   LET d == parsed_docs[k].document_id
                   IN /\ HasRow(store', d)
                      /\ (\/ ~HasRow(store, d)
                          \/ d \in cfg'.specific_ids
                          \/ FetchOne(store, d).status_enrichment = pending)
                         => /\ FetchOne(store', d).status_enrichment = pending
                            /\ FetchOne(store', d).updated_at = runs

C35_UpsertAllOrNothing == [][C35_UpsertAllOrNothing_Step]_vars

\* the pass of the second run raised, and the table holds what the first
\* run left: one record in error, nothing with the time of the second pass
C35_Witness ==
    /\ pc = "raised"
    /\ flags.name_error
    /\ runs = 2
    /\ Len(store) = 1
    /\ \A i \in DOMAIN store :
          /\ store[i].status_enrichment = error_enrichment
          /\ store[i].updated_at = 1

\* the agent of the conversation of the last call
LastAgent == active_conversations[webhook.conversation_key]

\* the last call got past the checks of its body (171-173)
Handled == webhook.status \in {200, 500}

\* C36: after a call that handled a message with the activation phrase, the
\* agent of the conversation is in awaiting_request with no stored query and
\* no last sent document id, whatever state the call found it in.
C36_ActivationRestarts ==
    (Handled /\ HasActivation(webhook.message)) =>
       /\ LastAgent.state = "awaiting_request"
       /\ LastAgent.user_query_for_search = Null
       /\ LastAgent.last_doc_id_sent = Null

\* the phrase came, in capitals and between blanks, while the agent waited
\* for an approval with a query and a document id stored
C36_Witness ==
    /\ webhook.status = 200
    /\ webhook.message = " Advogada Parceira "
    /\ webhook.before.state = "awaiting_approval"
    /\ webhook.before.user_query_for_search # Null
    /\ webhook.before.last_doc_id_sent # Null
    /\ LastAgent.state = "awaiting_request"

\* C37: after a call that returned normally the agent is not in
\* performing_search; an agent in awaiting_approval or offer_alternative has
\* a last sent document id and a stored query; and a call that moved the
\* agent into awaiting_approval made a search that chose that document.
C37_NoSearchLeftOpen ==
    /\ webhook.status = 200 => LastAgent.state # "performing_search"
    /\ \A k \in DOMAIN active_conversations :
          active_conversations[k].state \in {"awaiting_approval", "offer_alternative"}
             => /\ active_conversations[k].last_doc_id_sent # Null
                /\ active_conversations[k].user_query_for_search # Null
    /\ (/\ Handled
        /\ LastAgent.state = "awaiting_approval"
        /\ webhook.before.state # "awaiting_approval")
       => /\ webhook.agent_action.type = "search"
          /\ Len(webhook.texts) = 2
          /\ webhook.texts[1] = "texto"

\* C38: a call logs a feedback only for an approval given in
\* awaiting_approval or an alternative declined in offer_alternative; the
\* payload carries the document id and the query the agent held when the
\* call came, and the agent is back in waiting_activation with both cleared.
\* A reply that is neither yes nor no, and has no activation phrase, leaves
\* the agent in either state as it was.
C38_FeedbackOnlyOnAnswer ==
    /\ webhook.agent_action.type = "text_and_log_feedback" =>
          /\ \/ /\ webhook.before.state = "awaiting_approval"
                /\ IsYes(webhook.message)
                /\ webhook.log_payload.feedback_sentiment = "positive"
             \/ /\ webhook.before.state = "offer_alternative"
                /\ IsNo(webhook.message)
                /\ webhook.log_payload.feedback_sentiment
                      = "negative_declined_alternative"
          /\ webhook.log_payload.sent_document_id = webhook.before.last_doc_id_sent
          /\ webhook.log_payload.original_user_query
                = webhook.before.user_query_for_search
          /\ webhook.log_payload.sent_document_id # Null
          /\ LastAgent = NewAgent
    /\ webhook.agent_action.type # "text_and_log_feedback" =>
          webhook.log_payload = NoLog
    /\ (/\ Handled
        /\ webhook.before.state \in {"awaiting_approval", "offer_alternative"}
        /\ ~IsYes(webhook.message)
        /\ ~IsNo(webhook.message)
        /\ ~HasActivation(webhook.message))
       => LastAgent = webhook.before

\* an alternative was declined after a search for the stored query, and the
\* feedback went out with the stored document id and query
C38_Witness ==
    /\ webhook.status = 200
    /\ webhook.before.state = "offer_alternative"
    /\ webhook.log_payload.feedback_sentiment = "negative_declined_alternative"
    /\ webhook.log_payload.sent_document_id = "D2"
    /\ webhook.log_payload.original_user_query = "nao"
    /\ LastAgent = NewAgent

====
